---- MODULE Spec2Model ----
(***************************************************************************)
(* GeoShield landslide-risk service: the model registry                    *)
(* (ml-service/app/ml/registry/model_store.py), the prediction endpoints   *)
(* (ml-service/app/api/v1/endpoints/predict.py, schemas/prediction.py) and *)
(* the standalone predictor with its geographic adjustment                 *)
(* (server/ml/predict.py).                                                 *)
(*                                                                         *)
(* Probabilities are fixed-point numbers in hundredths: PScale stands for  *)
(* 1.0.  Python dicts are functions whose DOMAIN is the set of keys.       *)
(***************************************************************************)
EXTENDS Integers, Sequences, FiniteSets, TLC

VARIABLES
    models,          \* ModelRegistry.models: name -> artifact
    model_metadata,  \* ModelRegistry.model_metadata: name -> metadata
    loaded,          \* ModelRegistry.loaded
    files,           \* models_path: model file name -> pickled artifact
    meta_files,      \* models_path: "<name>_metadata.pkl", keyed by name
    phase,           \* lifecycle of the registry object: which of
                     \* construct / load_models / cleanup completed last
    saved,           \* history: name -> the artifact most recently passed
                     \* to save_model under that name
    pc,              \* the thread running reload_model: the name it has
                     \* unloaded and not yet loaded again, if any
    last,            \* the most recent call and what its caller observed
    events_df,       \* LandslideMLPredictor.events_df
    district_df,     \* LandslideMLPredictor.district_df
    model_file,      \* the pickle at MODEL_PATH
    result           \* what the most recent predictor call returned

registry_vars == <<models, model_metadata, loaded, files, meta_files, phase, saved, pc, last>>

predictor_vars == <<events_df, district_df, model_file, result>>

vars == <<registry_vars, predictor_vars>>

----------------------------------------------------------------------------
(* Bounds and scales *)

MaxInput == 5        \* feature vectors 1..MaxInput are sent to the endpoints

MaxBatch == 3        \* batches of 0..MaxBatch locations are sent, and
                     \* batches at and just over the size limit

MaxGrid == 3         \* grids of 1..MaxGrid points a side are requested, and
                     \* grids at and just over the size limit

PScale == 100        \* fixed-point representation of probability 1.0

FeatureInputs == 1..MaxInput

----------------------------------------------------------------------------
(* Python dict helpers *)

EmptyDict == [k \in {} |-> "None"]

Put(d, k, v) == [x \in (DOMAIN d) \cup {k} |-> IF x = k THEN v ELSE d[x]]

Del(d, k) == [x \in (DOMAIN d) \ {k} |-> d[x]]

DictGet(d, k, default) == IF k \in DOMAIN d THEN d[k] ELSE default

----------------------------------------------------------------------------
(* Configuration: app/core/config.py *)

LOW_RISK_THRESHOLD == 30

MODERATE_RISK_THRESHOLD == 50

HIGH_RISK_THRESHOLD == 70

SEVERE_RISK_THRESHOLD == 90

MAX_BATCH_SIZE == 100

\* get_risk_zones: "if grid_size > 50"
GridSizeLimit == 50

\* settings.FEATURE_COLUMNS
FEATURE_COLUMNS ==
    <<"rainfall_intensity", "soil_moisture", "ndvi", "slope_angle",
      "elevation", "lithology_code", "land_use_code", "distance_to_road",
      "distance_to_river", "drainage_density", "curvature", "aspect", "twi",
      "historical_landslides", "precipitation_30d", "temperature", "humidity">>

----------------------------------------------------------------------------
(* The artifact store and the artifacts *)

\* load_models: model_files, in iteration order
SlotOrder ==
    <<"xgboost", "lightgbm", "random_forest", "svm", "neural_network",
      "ensemble", "preprocessor", "pca">>

Slots == {SlotOrder[i] : i \in 1..Len(SlotOrder)}

\* load_models: model_files[name]
ModelFile(name) ==
    CASE name = "xgboost"        -> "xgboost_model.pkl"
      [] name = "lightgbm"       -> "lightgbm_model.pkl"
      [] name = "random_forest"  -> "random_forest_model.pkl"
      [] name = "svm"            -> "svm_model.pkl"
      [] name = "neural_network" -> "neural_network_model.pkl"
      [] name = "ensemble"       -> "ensemble_model.pkl"
      [] name = "preprocessor"   -> "preprocessor.pkl"
      [] name = "pca"            -> "pca_model.pkl"

\* save_model / reload_model: models_path / f"{model_name}_model.pkl"
ModelPath(name) ==
    CASE name = "xgboost"        -> "xgboost_model.pkl"
      [] name = "lightgbm"       -> "lightgbm_model.pkl"
      [] name = "random_forest"  -> "random_forest_model.pkl"
      [] name = "svm"            -> "svm_model.pkl"
      [] name = "neural_network" -> "neural_network_model.pkl"
      [] name = "ensemble"       -> "ensemble_model.pkl"
      [] name = "preprocessor"   -> "preprocessor_model.pkl"
      [] name = "pca"            -> "pca_model.pkl"

\* The five member classifiers, in the order predict_single polls them
MemberOrder == <<"xgboost", "lightgbm", "random_forest", "neural_network", "svm">>

Members == {MemberOrder[i] : i \in 1..Len(MemberOrder)}

\* Trained classifiers a caller saves or the store holds
Artifacts == {"A", "B"}

\* The RandomForest that _create_dummy_models fits on np.random data
DummyArtifacts == {"D1", "D2"}

\* The StandardScaler that _create_dummy_models fits
Scaler == "Scaler"

\* A file whose unpickling raises
Corrupt == "Corrupt"

\* Metadata dicts: "empty" is {} (or None), "v1" a training record,
\* "fb" a dict with is_fallback = True
MetaVals == {"empty", "v1", "fb"}

Truthy(md) == md # "empty"

IsFallback(md) == md = "fb"

\* Names that callers pass to save_model / unload_model / reload_model
OpNames == {"ensemble", "xgboost"}

\* A trained classifier whose predict_proba raises on one feature vector
Faulty == "F"

\* Positive-class probabilities the classifiers return, in hundredths
ProbaGrid == <<0, 29, 30, 49, 50, 69, 70, 89, 90, 100>>

\* model.predict_proba(features)[0][1] of an artifact on feature vector x
predict_proba(model, x) ==
    CASE model = "A"  -> ProbaGrid[((2 * (x - 1)) % 10) + 1]
      [] model = "B"  -> ProbaGrid[((2 * (x - 1) + 1) % 10) + 1]
      [] model = "D1" -> 10 * ((x + 3) % 11)
      [] model = "D2" -> 10 * ((2 * x) % 11)
      [] model = "F"  -> 10 * x

\* model.predict_proba(features) raises instead of returning
proba_raises(model, x) == model = Faulty /\ x = 3

\* hasattr(model, 'feature_importances_')
HasImportances(model) == model \in {"A", "D1", "D2"}

\* model.feature_importances_, in hundredths: "A" was trained on five
\* features, the dummy RandomForest on settings.N_FEATURES
feature_importances_(model) ==
    CASE model = "A"  -> <<25, 18, 15, 30, 18>>
      [] model = "D1" -> [i \in 1..Len(FEATURE_COLUMNS) |-> (i * 7) % 5]
      [] model = "D2" -> [i \in 1..Len(FEATURE_COLUMNS) |-> (i * 3) % 4]
      [] OTHER        -> << >>

----------------------------------------------------------------------------
(* What a caller observes of a call *)

NoResp == [status |-> 0]

Call(op, name, raised) ==
    [op |-> op, name |-> name, x |-> 0, raised |-> raised, resp |-> NoResp]

----------------------------------------------------------------------------
(* ModelRegistry: app/ml/registry/model_store.py *)

\* Stores the service may be started on
InitStores ==
    { [f |-> EmptyDict, m |-> EmptyDict],
      [f |-> [k \in {"ensemble_model.pkl"} |-> "A"], m |-> EmptyDict],
      [f |-> [k \in {"xgboost_model.pkl", "lightgbm_model.pkl",
                     "random_forest_model.pkl"} |-> "A"],
       m |-> EmptyDict],
      [f |-> [k \in {"ensemble_model.pkl", "xgboost_model.pkl",
                     "lightgbm_model.pkl"} |->
                  IF k = "xgboost_model.pkl" THEN "A" ELSE "B"],
       m |-> [k \in {"ensemble"} |-> "v1"]],
      [f |-> [k \in {"ensemble_model.pkl"} |-> Corrupt], m |-> EmptyDict],
      [f |-> [k \in {"ensemble_model.pkl"} |-> Faulty], m |-> EmptyDict],
      [f |-> [k \in {"ensemble_model.pkl"} |-> "A"],
       m |-> [k \in {"ensemble"} |-> Corrupt]] }

\* The standalone predictor is a separate process: the service holds no
\* reference tables
NoTable == [none |-> TRUE, cols |-> {}, rows |-> << >>]

NoResult == [op |-> "none"]

\* The service does not read the pipeline pickle of the standalone predictor
NoFile == [readable |-> FALSE]

\* No reload_model call is between its unload and its load.  old: the
\* artifact the slot held when reload_model was entered (history)
Idle == [name |-> "", old |-> "None"]

\* ModelRegistry.__init__
RegistryInit ==
    /\ models = EmptyDict
    /\ model_metadata = EmptyDict
    /\ loaded = FALSE
    /\ phase = "constructed"
    /\ saved = EmptyDict
    /\ pc = Idle
    /\ last = Call("__init__", "", FALSE)

Init ==
    /\ RegistryInit
    /\ \E s \in InitStores : files = s.f /\ meta_files = s.m
    /\ events_df = NoTable
    /\ district_df = NoTable
    /\ model_file = NoFile
    /\ result = NoResult

\* load_models, loop body: the model file exists and joblib.load returns
FileLoads(name) ==
    /\ ModelFile(name) \in DOMAIN files
    /\ files[ModelFile(name)] # Corrupt

\* load_models, loop body: the metadata file exists and pickle.load returns
MetaLoads(name) ==
    /\ name \in DOMAIN meta_files
    /\ meta_files[name] # Corrupt

\* load_models, loop body: the iteration reaches loaded_count += 1
Counted(name) ==
    /\ FileLoads(name)
    /\ (name \in DOMAIN meta_files => MetaLoads(name))

loaded_count == Cardinality({n \in Slots : Counted(n)})

\* self.models after the loop of load_models
ModelsAfterLoop ==
    [n \in (DOMAIN models) \cup {s \in Slots : FileLoads(s)} |->
        IF n \in Slots /\ FileLoads(n) THEN files[ModelFile(n)] ELSE models[n]]

\* self.model_metadata after the loop of load_models
MetadataAfterLoop ==
    [n \in (DOMAIN model_metadata)
             \cup {s \in Slots : FileLoads(s) /\ MetaLoads(s)} |->
        IF n \in Slots /\ FileLoads(n) /\ MetaLoads(n)
        THEN meta_files[n] ELSE model_metadata[n]]

\* _create_dummy_models: the assignments to self.models
_create_dummy_models(m, dummy_model) ==
    [n \in (DOMAIN m) \cup Members \cup {"ensemble", "preprocessor"} |->
        IF n \in Members \cup {"ensemble"} THEN dummy_model
        ELSE IF n = "preprocessor" THEN Scaler
        ELSE m[n]]

\* load_models.  dummy_ok: the imports and fits of _create_dummy_models
\* succeed; when they do not, the exception leaves through "raise".
load_models ==
    \E dummy_model \in DummyArtifacts, dummy_ok \in BOOLEAN :
        /\ model_metadata' = MetadataAfterLoop
        /\ IF loaded_count = 0 /\ ~dummy_ok
           THEN /\ models' = ModelsAfterLoop
                /\ UNCHANGED <<loaded, phase>>
                /\ last' = Call("load_models", "", TRUE)
           ELSE /\ models' = IF loaded_count = 0
                             THEN _create_dummy_models(ModelsAfterLoop, dummy_model)
                             ELSE ModelsAfterLoop
                /\ loaded' = TRUE
                /\ phase' = "loaded"
                /\ last' = Call("load_models", "", FALSE)
        /\ UNCHANGED <<files, meta_files, saved, pc, predictor_vars>>

get_model(model_name) == DictGet(models, model_name, "None")

get_metadata(model_name) == DictGet(model_metadata, model_name, "empty")

\* is_ready without the check of the ensemble slot
is_ready_loaded_only == loaded

is_ready == loaded /\ "ensemble" \in DOMAIN models

get_loaded_models == DOMAIN models

\* save_model registering the model without writing the artifact file
save_model_memory_only(model_name, model, metadata) ==
    /\ files' = files
    /\ meta_files' = IF Truthy(metadata)
                     THEN Put(meta_files, model_name, metadata)
                     ELSE meta_files
    /\ models' = Put(models, model_name, model)
    /\ model_metadata' = IF Truthy(metadata)
                         THEN Put(model_metadata, model_name, metadata)
                         ELSE model_metadata
    /\ saved' = Put(saved, model_name, model)
    /\ last' = Call("save_model", model_name, FALSE)
    /\ UNCHANGED <<loaded, phase, pc, predictor_vars>>

save_model(model_name, model, metadata) ==
    /\ files' = Put(files, ModelPath(model_name), model)
    /\ meta_files' = IF Truthy(metadata)
                     THEN Put(meta_files, model_name, metadata)
                     ELSE meta_files
    /\ models' = Put(models, model_name, model)
    /\ model_metadata' = IF Truthy(metadata)
                         THEN Put(model_metadata, model_name, metadata)
                         ELSE model_metadata
    /\ saved' = Put(saved, model_name, model)
    /\ last' = Call("save_model", model_name, FALSE)
    /\ UNCHANGED <<loaded, phase, pc, predictor_vars>>

\* unload_model deleting every slot instead of the named one
Unloaded_every_slot(model_name) ==
    IF model_name \in DOMAIN models THEN EmptyDict ELSE models

\* self.models after unload_model
Unloaded(model_name) ==
    IF model_name \in DOMAIN models THEN Del(models, model_name) ELSE models

unload_model(model_name) ==
    /\ models' = Unloaded(model_name)
    /\ last' = Call("unload_model", model_name, FALSE)
    /\ UNCHANGED <<model_metadata, loaded, files, meta_files, phase, saved, pc, predictor_vars>>

\* reload_model: joblib.load raising leaves through the caller
reload_model(model_name) ==
    /\ IF ModelPath(model_name) \in DOMAIN files
       THEN IF files[ModelPath(model_name)] = Corrupt
            THEN /\ models' = Unloaded(model_name)
                 /\ last' = Call("reload_model", model_name, TRUE)
            ELSE /\ models' = Put(Unloaded(model_name), model_name,
                                  files[ModelPath(model_name)])
                 /\ last' = Call("reload_model", model_name, FALSE)
       ELSE /\ models' = Unloaded(model_name)
            /\ last' = Call("reload_model", model_name, FALSE)
    /\ UNCHANGED <<model_metadata, loaded, files, meta_files, phase, saved, pc, predictor_vars>>

\* reload_model run by a thread of its own, up to the end of
\* self.unload_model(model_name)
reload_model_unload(model_name) ==
    /\ pc = Idle
    /\ models' = Unloaded(model_name)
    /\ pc' = [name |-> model_name, old |-> get_model(model_name)]
    /\ last' = Call("reload_model:unload", model_name, FALSE)
    /\ UNCHANGED <<model_metadata, loaded, files, meta_files, phase, saved, predictor_vars>>

\* reload_model run by a thread of its own, from model_path.exists() on
reload_model_load ==
    /\ pc # Idle
    /\ IF ModelPath(pc.name) \in DOMAIN files
       THEN IF files[ModelPath(pc.name)] = Corrupt
            THEN /\ models' = models
                 /\ last' = Call("reload_model:load", pc.name, TRUE)
            ELSE /\ models' = Put(models, pc.name, files[ModelPath(pc.name)])
                 /\ last' = Call("reload_model:load", pc.name, FALSE)
       ELSE /\ models' = models
            /\ last' = Call("reload_model:load", pc.name, FALSE)
    /\ pc' = Idle
    /\ UNCHANGED <<model_metadata, loaded, files, meta_files, phase, saved, predictor_vars>>

\* A request handler calls get_model
get_model_call(model_name) ==
    /\ last' = [op     |-> "get_model",
                name   |-> model_name,
                x      |-> 0,
                raised |-> FALSE,
                resp   |-> [status |-> 0, model |-> get_model(model_name)]]
    /\ UNCHANGED <<models, model_metadata, loaded, files, meta_files, phase, saved, pc, predictor_vars>>

cleanup ==
    /\ models' = EmptyDict
    /\ model_metadata' = EmptyDict
    /\ loaded' = FALSE
    /\ phase' = "cleaned"
    /\ last' = Call("cleanup", "", FALSE)
    /\ UNCHANGED <<files, meta_files, saved, pc, predictor_vars>>

----------------------------------------------------------------------------
(* Response schema: app/schemas/prediction.py *)

RiskLevel == {"Very Low", "Low", "Moderate", "High", "Severe"}

\* PredictionResponse.set_recommended_actions, v = None: actions.get(risk_level, [])
set_recommended_actions(risk_level) ==
    CASE risk_level = "Very Low" ->
           <<"Continue normal monitoring",
             "Review historical data periodically">>
      [] risk_level = "Low" ->
           <<"Increase monitoring frequency",
             "Check drainage systems",
             "Monitor weather forecasts">>
      [] risk_level = "Moderate" ->
           <<"Alert local authorities",
             "Prepare evacuation routes",
             "Increase monitoring to hourly intervals",
             "Restrict access to vulnerable areas">>
      [] risk_level = "High" ->
           <<"Issue evacuation advisory",
             "Mobilize emergency services",
             "Continuous real-time monitoring",
             "Close roads in high-risk zones",
             "Activate emergency shelters">>
      [] risk_level = "Severe" ->
           <<"IMMEDIATE EVACUATION REQUIRED",
             "Deploy rescue teams",
             "Establish emergency command center",
             "Block all access to danger zones",
             "Activate disaster response protocols">>
      [] OTHER -> << >>

----------------------------------------------------------------------------
(* predict_single: app/api/v1/endpoints/predict.py *)

\* The threshold chain with a strict comparison at the HIGH threshold
risk_level_of_strict(probability) ==
    IF probability >= SEVERE_RISK_THRESHOLD THEN "Severe"
    ELSE IF probability > HIGH_RISK_THRESHOLD THEN "High"
    ELSE IF probability >= MODERATE_RISK_THRESHOLD THEN "Moderate"
    ELSE IF probability >= LOW_RISK_THRESHOLD THEN "Low"
    ELSE "Very Low"

\* "Determine risk level": the if / elif chain over the thresholds
risk_level_of(probability) ==
    IF probability >= SEVERE_RISK_THRESHOLD THEN "Severe"
    ELSE IF probability >= HIGH_RISK_THRESHOLD THEN "High"
    ELSE IF probability >= MODERATE_RISK_THRESHOLD THEN "Moderate"
    ELSE IF probability >= LOW_RISK_THRESHOLD THEN "Low"
    ELSE "Very Low"

\* zip(feature_names, importances): as long as the shorter of the two
Zip(names, importances) ==
    [i \in 1..(IF Len(names) < Len(importances) THEN Len(names) ELSE Len(importances))
        |-> <<names[i], importances[i]>>]

\* sorted(items, key=lambda x: x[1], reverse=True): descending, items of
\* equal importance keep their order
RECURSIVE InsertDescending(_, _)
InsertDescending(sorted, item) ==
    IF sorted = << >> THEN <<item>>
    ELSE IF Head(sorted)[2] >= item[2]
         THEN <<Head(sorted)>> \o InsertDescending(Tail(sorted), item)
         ELSE <<item>> \o sorted

RECURSIVE SortedDescending(_, _)
SortedDescending(items, done) ==
    IF items = << >> THEN done
    ELSE SortedDescending(Tail(items), InsertDescending(done, Head(items)))

\* The dict of the comprehension, left in the order of the feature names
feature_importance_of_unsorted(reg) ==
    IF "xgboost" \in DOMAIN reg /\ HasImportances(reg["xgboost"])
    THEN Zip(FEATURE_COLUMNS, feature_importances_(reg["xgboost"]))
    ELSE << >>

\* "Get feature importance (from XGBoost)": the dict, as its items in order
feature_importance_of(reg) ==
    IF "xgboost" \in DOMAIN reg /\ HasImportances(reg["xgboost"])
    THEN SortedDescending(
             Zip(FEATURE_COLUMNS, feature_importances_(reg["xgboost"])), << >>)
    ELSE << >>

\* model_predictions: the predictions of the member slots that hold a model,
\* in polling order
RECURSIVE PredictionsFrom(_, _, _)
PredictionsFrom(reg, x, i) ==
    IF i > Len(MemberOrder) THEN << >>
    ELSE LET rest == PredictionsFrom(reg, x, i + 1)
         IN  IF MemberOrder[i] \in DOMAIN reg
             THEN <<predict_proba(reg[MemberOrder[i]], x)>> \o rest
             ELSE rest

model_predictions(reg, x) == PredictionsFrom(reg, x, 1)

RECURSIVE SumSeq(_)
SumSeq(s) == IF s = << >> THEN 0 ELSE Head(s) + SumSeq(Tail(s))

Squares(s) == [i \in 1..Len(s) |-> s[i] * s[i]]

\* IEEE-754 binary64: the hundredths v for which the mean of n copies of
\* float(v/100), summed left to right and divided by n as np.mean does, is
\* not float(v/100) again, so that np.std of the n equal values is 2^-53
\* instead of 0 (n = 2 and n = 4 are exact on this grid)
MeanOffGrid(n) ==
    CASE n = 3 -> {70, 72, 74, 76, 78, 80, 95, 97, 99}
      [] n = 5 -> {81, 83, 84, 87, 88, 91, 92, 94, 98}
      [] OTHER -> {}

\* np.std(preds) = sqrt(rad) / (n * PScale) + ulps * 2^-53, kept exact:
\* rad = n * sum(x^2) - sum(x)^2 is n^2 times the variance in hundredths^2
np_std(preds) ==
    LET n   == Len(preds)
        rad == n * SumSeq(Squares(preds)) - SumSeq(preds) * SumSeq(preds)
    IN  [rad  |-> rad,
         n    |-> n,
         ulps |-> IF rad = 0 /\ preds[1] \in MeanOffGrid(n) THEN 1 ELSE 0]

\* A confidence is the exact number
\*     c / PScale - sqrt(rad) / (n * PScale) - ulps * 2^-53
Neutral == [c |-> 80, rad |-> 0, n |-> 1, ulps |-> 0]

\* The confidence with the standard deviation taken of a single prediction
confidence_of_one_member(preds) ==
    IF Len(preds) > 0
    THEN LET sd == np_std(preds)
         IN  [c |-> PScale, rad |-> sd.rad, n |-> sd.n, ulps |-> sd.ulps]
    ELSE Neutral

\* confidence = 1.0 - np.std(model_predictions) if len > 1 else 0.8,
\* then min(max(confidence, 0.0), 1.0)
confidence_of(preds) ==
    IF Len(preds) > 1
    THEN LET sd == np_std(preds)
         IN  IF sd.rad > (sd.n * PScale) * (sd.n * PScale)
             THEN [c |-> 0, rad |-> 0, n |-> 1, ulps |-> 0]
             ELSE [c |-> PScale, rad |-> sd.rad, n |-> sd.n, ulps |-> sd.ulps]
    ELSE Neutral

\* The response built with recommended_actions=[] passed in, which the
\* validator returns as it is
PredictionResponse_given_actions(x, probability, risk_level, confidence, feature_importance) ==
    [status              |-> 200,
     x                   |-> x,
     probability         |-> probability,
     risk_level          |-> risk_level,
     confidence          |-> confidence,
     feature_importance  |-> feature_importance,
     recommended_actions |-> << >>]

\* PredictionResponse(...) as serialised with status 200
PredictionResponse(x, probability, risk_level, confidence, feature_importance) ==
    [status              |-> 200,
     x                   |-> x,
     probability         |-> probability,
     risk_level          |-> risk_level,
     confidence          |-> confidence,
     feature_importance  |-> feature_importance,
     recommended_actions |-> set_recommended_actions(risk_level)]

\* raise HTTPException(status_code=..., detail=...)
HTTPException(status_code, detail) ==
    [raised |-> TRUE, exc |-> "HTTPException",
     status |-> status_code, detail |-> detail]

\* The try block of predict_single
predict_single_try(reg, x) ==
    IF "ensemble" \notin DOMAIN reg
    THEN HTTPException(503, "Ensemble model not available")
    ELSE IF \/ proba_raises(reg["ensemble"], x)
            \/ \E m \in Members \cap DOMAIN reg : proba_raises(reg[m], x)
    THEN [raised |-> TRUE, exc |-> "ValueError",
          status |-> 0, detail |-> "predict_proba"]
    ELSE LET probability == predict_proba(reg["ensemble"], x)
         IN  [raised |-> FALSE,
              resp   |-> PredictionResponse(
                             x, probability,
                             risk_level_of(probability),
                             confidence_of(model_predictions(reg, x)),
                             feature_importance_of(reg))]

\* predict_single with its "except Exception" clause, which also catches
\* the HTTPException raised inside the try block
predict_single_response(reg, x) ==
    LET r == predict_single_try(reg, x)
    IN  IF r.raised
        THEN [status |-> 500, detail |-> "Prediction failed", cause |-> r.detail]
        ELSE r.resp

predict_single(x) ==
    /\ last' = [op     |-> "predict_single",
                name   |-> "",
                x      |-> x,
                raised |-> predict_single_response(models, x).status # 200,
                resp   |-> predict_single_response(models, x)]
    /\ UNCHANGED <<models, model_metadata, loaded, files, meta_files, phase, saved, pc, predictor_vars>>

----------------------------------------------------------------------------
(* predict_batch: app/api/v1/endpoints/predict.py, schemas/prediction.py *)

\* request.locations: the feature vectors of the locations, in order
Locations(size, start) ==
    [i \in 1..size |-> ((start - 1 + (i - 1)) % MaxInput) + 1]

\* The batches that are sent: every small batch of consecutive feature
\* vectors, a batch of the largest size allowed and one larger by one
BatchRequests ==
    {Locations(size, start) : size \in 0..MaxBatch, start \in FeatureInputs}
        \cup {Locations(MAX_BATCH_SIZE, 1), Locations(MAX_BATCH_SIZE + 1, 1)}

\* The validator without its check for the empty list
validate_batch_size_upper_only(v) ==
    IF Len(v) > 100
    THEN [raised |-> TRUE, exc |-> "ValueError",
          detail |-> "Batch size cannot exceed 100 locations"]
    ELSE [raised |-> FALSE]

\* BatchPredictionRequest.validate_batch_size
validate_batch_size(v) ==
    IF Len(v) > 100
    THEN [raised |-> TRUE, exc |-> "ValueError",
          detail |-> "Batch size cannot exceed 100 locations"]
    ELSE IF Len(v) = 0
    THEN [raised |-> TRUE, exc |-> "ValueError",
          detail |-> "Batch must contain at least one location"]
    ELSE [raised |-> FALSE]

\* sum(1 for p in predictions if p.risk_level == risk_level)
CountTier(predictions, risk_level) ==
    Cardinality({i \in 1..Len(predictions) : predictions[i].risk_level = risk_level})

\* The summary with the "high" count taking the Severe predictions as well
calculate_summary_high_or_severe(predictions) ==
    [total    |-> Len(predictions),
     very_low |-> CountTier(predictions, "Very Low"),
     low      |-> CountTier(predictions, "Low"),
     moderate |-> CountTier(predictions, "Moderate"),
     high     |-> CountTier(predictions, "High") + CountTier(predictions, "Severe"),
     severe   |-> CountTier(predictions, "Severe")]

\* BatchPredictionResponse.calculate_summary, v = None
calculate_summary(predictions) ==
    [total    |-> Len(predictions),
     very_low |-> CountTier(predictions, "Very Low"),
     low      |-> CountTier(predictions, "Low"),
     moderate |-> CountTier(predictions, "Moderate"),
     high     |-> CountTier(predictions, "High"),
     severe   |-> CountTier(predictions, "Severe")]

\* BatchPredictionResponse(...) as serialised with status 200
BatchPredictionResponse(predictions, total_locations) ==
    [status          |-> 200,
     predictions     |-> predictions,
     total_locations |-> total_locations,
     summary         |-> calculate_summary(predictions)]

\* The responses of predict_single for the locations, in order
SingleResponses(reg, locations) ==
    SubSeq([i \in 1..Len(locations) |->
               predict_single_response(reg, locations[i])],
           1, Len(locations))

\* The first location whose predict_single raises (its response is not a
\* 200), or Len(responses) + 1 when none does
FirstFailure(responses) ==
    IF \A i \in 1..Len(responses) : responses[i].status = 200
    THEN Len(responses) + 1
    ELSE CHOOSE i \in 1..Len(responses) :
             /\ responses[i].status # 200
             /\ \A j \in 1..(i - 1) : responses[j].status = 200

\* The loop over responses that ends at location "at": the predictions
\* appended, or the HTTPException of predict_single.  served: the number
\* of predict_single calls made.
LoopOutcome(responses, at) ==
    IF at > Len(responses)
    THEN [raised      |-> FALSE,
          predictions |-> responses,
          served      |-> Len(responses)]
    ELSE [raised |-> TRUE, exc |-> "HTTPException",
          resp |-> responses[at], at |-> at, served |-> at]

LoopOver(responses) == LoopOutcome(responses, FirstFailure(responses))

\* The responses in the order in which prepending leaves them
Reversed(responses) ==
    [i \in 1..Len(responses) |-> responses[Len(responses) + 1 - i]]

\* The loop with each response put in front of the earlier ones
BatchLoop_prepend(reg, locations) ==
    LoopOver(Reversed(SingleResponses(reg, locations)))

\* predict_batch, "for location in request.locations": predict_single per
\* location, each response appended to predictions; the HTTPException of
\* the first predict_single that fails ends the loop
BatchLoop(reg, locations) ==
    LoopOver(SingleResponses(reg, locations))

\* predict_batch after the loop: the response, or the exception that
\* "except HTTPException: raise" passes on
BatchAnswer(loop) ==
    IF loop.raised
    THEN [resp |-> loop.resp, at |-> loop.at, served |-> loop.served]
    ELSE [resp   |-> BatchPredictionResponse(loop.predictions,
                                             Len(loop.predictions)),
          at     |-> 0,
          served |-> loop.served]

\* predict_batch: the handler
predict_batch_response(reg, locations) ==
    IF Len(locations) > MAX_BATCH_SIZE
    THEN [resp   |-> [status |-> 400, detail |-> "Batch size exceeds maximum"],
          at     |-> 0,
          served |-> 0]
    ELSE BatchAnswer(BatchLoop(reg, locations))

\* What the caller of POST /batch observes
BatchCall(locations, answer) ==
    [op        |-> "predict_batch",
     name      |-> "",
     x         |-> 0,
     raised    |-> answer.resp.status # 200,
     resp      |-> answer.resp,
     locations |-> locations,
     at        |-> answer.at,
     served    |-> answer.served]

\* POST /batch: the request body is validated against BatchPredictionRequest
\* before the handler is called; a validation error is answered with 422
predict_batch(locations) ==
    /\ last' = BatchCall(locations,
                   IF validate_batch_size(locations).raised
                   THEN [resp   |-> [status |-> 422,
                                     detail |-> "locations: ValueError"],
                         at     |-> 0,
                         served |-> 0]
                   ELSE predict_batch_response(models, locations))
    /\ UNCHANGED <<models, model_metadata, loaded, files, meta_files, phase, saved, pc, predictor_vars>>

----------------------------------------------------------------------------
(* The service: registry calls and prediction requests in any order *)

Next ==
    \/ load_models
    \/ \E n \in OpNames, m \in Artifacts, md \in MetaVals : save_model(n, m, md)
    \/ \E n \in OpNames : unload_model(n)
    \/ \E n \in OpNames : reload_model(n)
    \/ cleanup
    \/ \E x \in FeatureInputs : predict_single(x)

Spec == Init /\ [][Next]_vars

----------------------------------------------------------------------------
(* get_risk_zones: app/api/v1/endpoints/predict.py *)

\* The bounds that are requested, in degrees:
\* <<min_latitude, max_latitude, min_longitude, max_longitude>>
BoundsInputs ==
    { <<10, 12, 76, 78>>, <<-12, -10, -62, -60>>, <<-1, 1, 0, 0>>,
      <<10, 10, 76, 76>> }

\* The requests that are sent, <<bounds, grid_size>>: every small grid, a
\* grid of the largest size allowed and grids larger by one
GridRequests ==
    (BoundsInputs \X (1..MaxGrid))
        \cup {<<<<10, 12, 76, 78>>, GridSizeLimit>>}
        \cup (BoundsInputs \X {GridSizeLimit + 1})

\* The points spaced as np.linspace(start, stop, num, endpoint=False)
linspace_no_endpoint(start, stop, num, i) ==
    [num |-> start * num + (i - 1) * (stop - start), den |-> num]

\* np.linspace(start, stop, num)[i - 1] as the exact fraction num / den:
\* start + (i - 1) * (stop - start) / (num - 1), the last point being stop
linspace(start, stop, num, i) ==
    IF num = 1 THEN [num |-> start, den |-> 1]
    ELSE [num |-> start * (num - 1) + (i - 1) * (stop - start), den |-> num - 1]

\* int(v) of the fraction n / d, d > 0: truncation towards zero
IntTrunc(n, d) == IF n >= 0 THEN n \div d ELSE -((-n) \div d)

\* _generate_simulated_features: np.random.seed(int((lat + lon) * 1000))
\* raises ValueError for a negative seed; the features drawn after it are a
\* function of the seed
_generate_simulated_features(lat, lon) ==
    LET seed == IntTrunc((lat.num + lon.num) * 1000, lat.den)
    IN  IF seed < 0
        THEN [raised |-> TRUE, exc |-> "ValueError", x |-> 0]
        ELSE [raised |-> FALSE, x |-> (seed % MaxInput) + 1]

\* get_risk_zones, the body of the inner loop: the cell appended to row,
\* or the exception that ends the request
GridCell(reg, lat, lon) ==
    LET features == _generate_simulated_features(lat, lon)
    IN  IF features.raised THEN [raised |-> TRUE, exc |-> features.exc, calls |-> 0]
        ELSE IF "ensemble" \in DOMAIN reg
        THEN IF proba_raises(reg["ensemble"], features.x)
             THEN [raised |-> TRUE, exc |-> "ValueError", calls |-> 1]
             ELSE [raised |-> FALSE, calls |-> 1,
                   cell |-> [latitude |-> lat, longitude |-> lon,
                             probability |->
                                 predict_proba(reg["ensemble"], features.x)]]
        ELSE [raised |-> FALSE, calls |-> 0,
              cell |-> [latitude |-> lat, longitude |-> lon,
                        probability |-> 50]]

\* The outcome of the inner loop's body for every point of the grid:
\* a row per latitude, a cell per longitude
GridCells(reg, b, grid_size) ==
    SubSeq([i \in 1..grid_size |->
               SubSeq([j \in 1..grid_size |->
                          GridCell(reg, linspace(b[1], b[2], grid_size, i),
                                        linspace(b[3], b[4], grid_size, j))],
                      1, grid_size)],
           1, grid_size)

\* The k-th cell in the order the two loops visit them
CellAt(cells, k) ==
    cells[((k - 1) \div Len(cells)) + 1][((k - 1) % Len(cells)) + 1]

\* The position, in visiting order, of the first cell whose body raises,
\* or 0 when none does
FirstRaised(cells) ==
    IF \A i \in 1..Len(cells) : \A j \in 1..Len(cells) : ~cells[i][j].raised
    THEN 0
    ELSE CHOOSE k \in 1..(Len(cells) * Len(cells)) :
             /\ CellAt(cells, k).raised
             /\ \A k2 \in 1..(k - 1) : ~CellAt(cells, k2).raised

\* get_risk_zones, the two loops over lat_points and lon_points: risk_grid,
\* or the first exception.  calls: the number of predict_proba calls made,
\* per_cell for each cell visited before the one that raised.
GridOutcome(cells, at, per_cell) ==
    IF at = 0
    THEN [raised |-> FALSE,
          grid   |-> [i \in 1..Len(cells) |-> [j \in 1..Len(cells) |->
                         cells[i][j].cell]],
          calls  |-> per_cell * Len(cells) * Len(cells)]
    ELSE [raised |-> TRUE, exc |-> CellAt(cells, at).exc,
          calls |-> per_cell * (at - 1) + CellAt(cells, at).calls]

LoopsOver(cells, per_cell) == GridOutcome(cells, FirstRaised(cells), per_cell)

RiskGrid(reg, b, grid_size) ==
    LoopsOver(GridCells(reg, b, grid_size),
              IF "ensemble" \in DOMAIN reg THEN 1 ELSE 0)

\* get_risk_zones after the loops: the dict returned, or the exception
\* answered by "except Exception"
GridAnswer(g, b, grid_size) ==
    IF g.raised
    THEN [resp  |-> [status |-> 500,
                     detail |-> "Risk zone generation failed",
                     cause  |-> g.exc],
          calls |-> g.calls]
    ELSE [resp  |-> [status    |-> 200,
                     grid      |-> g.grid,
                     grid_size |-> grid_size,
                     bounds    |-> [min_latitude  |-> b[1],
                                    max_latitude  |-> b[2],
                                    min_longitude |-> b[3],
                                    max_longitude |-> b[4]]],
          calls |-> g.calls]

\* get_risk_zones: the handler
get_risk_zones_response(reg, b, grid_size) ==
    IF grid_size > GridSizeLimit
    THEN [resp  |-> [status |-> 400, detail |-> "Grid size too large (max: 50x50)"],
          calls |-> 0]
    ELSE GridAnswer(RiskGrid(reg, b, grid_size), b, grid_size)

\* What the caller of GET /risk-zones observes
GridCall(b, grid_size, answer) ==
    [op        |-> "get_risk_zones",
     name      |-> "",
     x         |-> 0,
     raised    |-> answer.resp.status # 200,
     resp      |-> answer.resp,
     bounds    |-> b,
     grid_size |-> grid_size,
     served    |-> answer.calls]

get_risk_zones(b, grid_size) ==
    /\ last' = GridCall(b, grid_size, get_risk_zones_response(models, b, grid_size))
    /\ UNCHANGED <<models, model_metadata, loaded, files, meta_files, phase, saved, pc, predictor_vars>>

----------------------------------------------------------------------------
(* The batch and risk-zone endpoints, on a registry that load_models
   fills from the store and whose slots are unloaded *)

EndpointNext ==
    \/ load_models
    \/ \E n \in OpNames : unload_model(n)
    \/ \E locations \in BatchRequests : predict_batch(locations)
    \/ \E r \in GridRequests : get_risk_zones(r[1], r[2])

EndpointSpec == Init /\ [][EndpointNext]_vars

----------------------------------------------------------------------------
(* Request handlers running while another thread reloads a slot *)

ConcurrentNext ==
    \/ (pc = Idle /\ load_models)
    \/ \E n \in OpNames : reload_model_unload(n)
    \/ reload_model_load
    \/ \E n \in OpNames : get_model_call(n)
    \/ \E x \in FeatureInputs : predict_single(x)

ConcurrentSpec == Init /\ [][ConcurrentNext]_vars

----------------------------------------------------------------------------
(* Properties of the registry and of predict_single *)

Predicted == last.op = "predict_single"

Succeeded == Predicted /\ last.resp.status = 200

\* The member slots that hold a model
LoadedMembers == Members \cap DOMAIN models

\* C1: whenever the "ensemble" slot is absent, a single prediction is
\* answered with the Unavailable outcome (HTTP 503), whatever member
\* models are loaded.
C1_AbsentEnsembleIsUnavailable ==
    (Predicted /\ "ensemble" \notin DOMAIN models) => last.resp.status = 503

C3_NotReadyNeverSucceeds ==
    (Predicted /\ ~is_ready) => last.resp.status # 200

\* C4: reload_model(name) for a name whose artifact is not in the store
\* signals an error to its caller.
C4_ReloadOfMissingArtifactRaises ==
    (last.op = "reload_model" /\ ModelPath(last.name) \notin DOMAIN files)
        => last.raised

\* C5: every slot that holds a stand-in fabricated by load_models has
\* metadata with is_fallback = true.
C5_FallbackIsFlagged ==
    \A n \in DOMAIN models :
        models[n] \in DummyArtifacts \cup {Scaler}
            => IsFallback(get_metadata(n))

\* C6: the risk tier of a successful single prediction is VERY_LOW for
\* p < 0.3, LOW for 0.3 <= p < 0.5, MODERATE for 0.5 <= p < 0.7, HIGH for
\* 0.7 <= p < 0.9 and SEVERE for p >= 0.9: exactly one tier for every p in
\* [0,1], a threshold value belonging to the higher tier.
C6_TierPartition ==
    Succeeded =>
        LET p == last.resp.probability
            t == last.resp.risk_level
        IN  /\ p \in 0..100
            /\ t \in RiskLevel
            /\ (t = "Very Low" <=> p < 30)
            /\ (t = "Low"      <=> (30 <= p /\ p < 50))
            /\ (t = "Moderate" <=> (50 <= p /\ p < 70))
            /\ (t = "High"     <=> (70 <= p /\ p < 90))
            /\ (t = "Severe"   <=> 90 <= p)

\* C6 witness: a prediction whose probability equals the 0.7 threshold and
\* is classified HIGH.
C6_Witness ==
    Succeeded /\ last.resp.probability = 70 /\ last.resp.risk_level = "High"

Range(s) == {s[i] : i \in 1..Len(s)}

\* C7: every successful single prediction carries the non-empty fixed
\* action list of its tier (2, 3, 4, 5 and 5 actions, opening with the
\* tier's first action); a probability in [0.7, 0.9) gives HIGH with
\* "Issue evacuation advisory" in the list, and SEVERE gives the list that
\* begins with "IMMEDIATE EVACUATION REQUIRED".
C7_ActionsOfTier ==
    Succeeded =>
        LET p == last.resp.probability
            t == last.resp.risk_level
            a == last.resp.recommended_actions
        IN  /\ a # << >>
            /\ Cardinality(Range(a)) = Len(a)
            /\ Len(a) = (CASE t = "Very Low" -> 2 [] t = "Low" -> 3
                           [] t = "Moderate" -> 4 [] OTHER -> 5)
            /\ Head(a) = (CASE t = "Very Low" -> "Continue normal monitoring"
                            [] t = "Low" -> "Increase monitoring frequency"
                            [] t = "Moderate" -> "Alert local authorities"
                            [] t = "High" -> "Issue evacuation advisory"
                            [] OTHER -> "IMMEDIATE EVACUATION REQUIRED")
            /\ ((70 <= p /\ p < 90) =>
                    t = "High" /\ "Issue evacuation advisory" \in Range(a))
            /\ (t = "Severe" =>
                    /\ a[1] = "IMMEDIATE EVACUATION REQUIRED"
                    /\ a[5] = "Activate disaster response protocols")

\* C7 witness: a HIGH prediction inside [0.7, 0.9) with the evacuation
\* advisory among its actions.
C7_Witness ==
    /\ Succeeded
    /\ last.resp.probability = 89
    /\ "Issue evacuation advisory" \in Range(last.resp.recommended_actions)

\* The predictions of the loaded members on the request of the last call
MemberPrediction(n) == predict_proba(models[n], last.x)

\* n^2 times the variance of the loaded members' predictions, from the
\* pairwise differences: sum over unordered pairs of (x_i - x_j)^2
RECURSIVE PairwiseSquares(_)
PairwiseSquares(pairs) ==
    IF pairs = {} THEN 0
    ELSE LET pr == CHOOSE q \in pairs : TRUE
             d  == MemberPrediction(pr[1]) - MemberPrediction(pr[2])
         IN  d * d + PairwiseSquares(pairs \ {pr})

MemberPairs ==
    {pr \in LoadedMembers \X LoadedMembers :
        \E i, j \in 1..Len(MemberOrder) :
            i < j /\ MemberOrder[i] = pr[1] /\ MemberOrder[j] = pr[2]}

\* c/PScale - sqrt(rad)/(n*PScale) - ulps*2^-53 lies in [0,1]
InUnitInterval(conf) ==
    /\ 0 <= conf.c /\ conf.c <= PScale
    /\ conf.rad >= 0 /\ conf.n >= 1 /\ conf.ulps >= 0
    /\ conf.rad <= (conf.c * conf.n) * (conf.c * conf.n)
    /\ (conf.ulps > 0 => conf.rad < (conf.c * conf.n) * (conf.c * conf.n))

\* The confidence is 1 - standard deviation of the loaded members'
\* predictions, up to the rounding of the float mean (the clamp never
\* acts on probabilities: their standard deviation is at most 1/2)
IsOneMinusStd(conf) ==
    /\ conf.c = PScale
    /\ conf.n = Cardinality(LoadedMembers)
    /\ conf.rad = PairwiseSquares(MemberPairs)

AllMembersAgree ==
    \A m1, m2 \in LoadedMembers : MemberPrediction(m1) = MemberPrediction(m2)

ExactlyOne(conf) == conf.c = PScale /\ conf.rad = 0 /\ conf.ulps = 0

\* C8 as claimed: the confidence of a successful single prediction is in
\* [0,1]; it is exactly 0.8 with fewer than two loaded members, otherwise
\* clamp(1 - std, 0, 1), and exactly 1.0 whenever two or more loaded
\* members all return the same probability.
C8_ConfidenceExactWhenMembersAgree ==
    Succeeded =>
        LET conf == last.resp.confidence
        IN  /\ InUnitInterval(conf)
            /\ (Cardinality(LoadedMembers) < 2 =>
                    conf = [c |-> 80, rad |-> 0, n |-> 1, ulps |-> 0])
            /\ (Cardinality(LoadedMembers) >= 2 => IsOneMinusStd(conf))
            /\ (Cardinality(LoadedMembers) >= 2 /\ AllMembersAgree =>
                    ExactlyOne(conf))

\* C8 as amended: the confidence is in [0,1]; it is exactly 0.8 with fewer
\* than two loaded members, otherwise clamp(1 - std, 0, 1); it is exactly
\* 1.0 when exactly two loaded members return the same probability, and
\* 1.0 or 1 - 2^-53 (the float mean of the predictions is rounded) when
\* three or more do.
C8_ConfidenceOfMembers ==
    Succeeded =>
        LET conf == last.resp.confidence
        IN  /\ InUnitInterval(conf)
            /\ (Cardinality(LoadedMembers) < 2 =>
                    conf = [c |-> 80, rad |-> 0, n |-> 1, ulps |-> 0])
            /\ (Cardinality(LoadedMembers) >= 2 => IsOneMinusStd(conf))
            /\ (Cardinality(LoadedMembers) = 2 /\ AllMembersAgree =>
                    ExactlyOne(conf))
            /\ (Cardinality(LoadedMembers) > 2 /\ AllMembersAgree =>
                    conf.c = PScale /\ conf.rad = 0 /\ conf.ulps \in {0, 1})

\* C8 witness: three loaded members that all return 0.7, answered with
\* confidence 1 - 2^-53.
C8_Witness ==
    /\ Succeeded
    /\ Cardinality(LoadedMembers) = 3
    /\ \A m \in LoadedMembers : MemberPrediction(m) = 70
    /\ last.resp.confidence = [c |-> 100, rad |-> 0, n |-> 3, ulps |-> 1]

----------------------------------------------------------------------------
(* LandslideMLPredictor: server/ml/predict.py *)

\* A DataFrame read from a CSV file: its columns and its rows.  A cell of
\* a column the frame does not have is never read.  none: the attribute
\* is None (the CSV files could not be read).
DataFrame(cols, rows) == [none |-> FALSE, cols |-> cols, rows |-> rows]

\* A missing value in a column of strings
NaN == "<NaN>"

\* A cell of the rank column, in tenths: "num" a number, "nan" a missing
\* value, "str" a string of digits (the column holds text), "txt" any
\* other string
Num(v) == [t |-> "num", v |-> v]

EventRow(lat, lon, district) ==
    [latitude |-> lat, longitude |-> lon, district |-> district,
     dist |-> 0, distance |-> 0]

DistrictRow(district, rank, state) ==
    [district |-> district, rank |-> rank, state |-> state]

EventCols == {"latitude", "longitude", "district"}

DistrictCols == {"district", "rank", "state"}

EventRows ==
    <<EventRow(10, 76, "Idukki"), EventRow(30, 79, "CHAMOLI"),
      EventRow(27, 88, "Gangtok"), EventRow(11, 75, "Wayanad"),
      EventRow(32, 77, NaN), EventRow(25, 91, "Nowhere")>>

\* Eleven events around (10, 76) and one far away
ClusterRows ==
    <<EventRow(10, 76, "Idukki"), EventRow(11, 75, "Wayanad"),
      EventRow(12, 75, "Wayanad"), EventRow(10, 76, "Idukki"),
      EventRow(11, 75, "Wayanad"), EventRow(12, 75, "Wayanad"),
      EventRow(10, 76, "Idukki"), EventRow(11, 75, "Wayanad"),
      EventRow(12, 75, "Wayanad"), EventRow(10, 76, "Idukki"),
      EventRow(11, 75, "Wayanad"), EventRow(27, 88, "Gangtok")>>

\* landslide_events.csv as read by _load_csv_reference_data
InitEventTables ==
    { DataFrame(EventCols, << >>),
      DataFrame(EventCols, EventRows),
      DataFrame(EventCols, ClusterRows),
      DataFrame(EventCols \ {"district"}, EventRows),
      DataFrame(EventCols \ {"latitude"}, EventRows) }

\* district_risk_rank.csv as read by _load_csv_reference_data
InitDistrictTables ==
    { DataFrame(DistrictCols, << >>),
      DataFrame(DistrictCols,
          <<DistrictRow("idukki", Num(10), "Kerala"),
            DistrictRow("Chamoli", Num(360), "Uttarakhand"),
            DistrictRow("Gangtok", Num(144), "Sikkim"),
            DistrictRow("Wayanad", Num(1000), NaN),
            DistrictRow("Idukki", Num(720), "Duplicate")>>),
      DataFrame(DistrictCols,
          <<DistrictRow("Idukki", [t |-> "str", v |-> 5], "Kerala"),
            DistrictRow("Chamoli", [t |-> "txt", v |-> 0], "Uttarakhand")>>),
      DataFrame(DistrictCols,
          <<DistrictRow("Idukki", [t |-> "nan", v |-> 0], "Kerala"),
            DistrictRow("Chamoli", Num(20), "Uttarakhand")>>),
      DataFrame(DistrictCols \ {"rank"},
          <<DistrictRow("Idukki", Num(0), "Kerala")>>),
      DataFrame(DistrictCols \ {"district"},
          <<DistrictRow("Idukki", Num(10), "Kerala")>>) }

\* Query points (latitude, longitude), in degrees
QueryPoints == {<<10, 76>>, <<29, 80>>, <<27, 88>>, <<12, 75>>, <<32, 77>>, <<25, 90>>}

\* Positive-class probabilities of the pipeline model, in hundredths
PipelineProbs == {0, 29, 50, 60, 80, 100}

\* Fixed-point representation of risk multiplier 1.0: a multiplier is a
\* number of 720ths, so that 2.0 - rank/72 is exact for ranks in tenths
MScale == 720

\* str.lower()
Lower(str) ==
    CASE str = "Idukki"  -> "idukki"
      [] str = "CHAMOLI" -> "chamoli"
      [] str = "Chamoli" -> "chamoli"
      [] str = "Gangtok" -> "gangtok"
      [] str = "Wayanad" -> "wayanad"
      [] str = "Nowhere" -> "nowhere"
      [] OTHER -> str

\* get_district_info: distance(lat1, lon1, lat2, lon2), kept as its square
distance(lat1, lon1, lat2, lon2) ==
    (lat1 - lat2) * (lat1 - lat2) + (lon1 - lon2) * (lon1 - lon2)

\* self.events_df['dist'] = self.events_df.apply(...)
WithDist(ev, latitude, longitude) ==
    [none |-> FALSE,
     cols |-> ev.cols \cup {"dist"},
     rows |-> [i \in 1..Len(ev.rows) |->
                 [ev.rows[i] EXCEPT
                     !.dist = distance(latitude, longitude,
                                       ev.rows[i].latitude, ev.rows[i].longitude)]]]

\* self.events_df.nsmallest(1, 'dist'): the first row of least distance
Nearest(rows) ==
    CHOOSE i \in 1..Len(rows) :
        \A j \in 1..Len(rows) :
            rows[i].dist < rows[j].dist \/ (rows[i].dist = rows[j].dist /\ i <= j)

\* The rows of district_df whose district equals name, ignoring case
DistrictMatch(dd, name) ==
    SelectSeq(dd.rows, LAMBDA r : r.district # NaN /\ Lower(r.district) = Lower(name))

\* int(rank)
IntOf(rank) ==
    CASE rank.t = "num" -> [raised |-> FALSE, v |-> rank.v \div 10]
      [] rank.t = "str" -> [raised |-> FALSE, v |-> rank.v]
      [] OTHER          -> [raised |-> TRUE, v |-> 0]

\* The multiplier without the lower limit of 1.0
RiskMultiplier_unlimited(rank) == 2 * MScale - rank.v

\* max(1.0, 2.0 - (rank / 72)), in 720ths
RiskMultiplier(rank) ==
    IF 2 * MScale - rank.v > MScale THEN 2 * MScale - rank.v ELSE MScale

DefaultDistrictInfo ==
    [district_rank   |-> 0,
     district_name   |-> "Unknown",
     state_name      |-> "Unknown",
     risk_multiplier |-> MScale]

\* get_district_info, the statements after "if not district_match.empty":
\* the dict as the assignments leave it, and the exception that ends them
AssignDistrictInfo(row, has_rank, has_state, district_name) ==
    LET rank  == IF has_rank THEN row.rank ELSE Num(0)
        state == IF has_state THEN row.state ELSE "Unknown"
    IN  IF IntOf(rank).raised
        THEN [info |-> DefaultDistrictInfo, exc |-> "ValueError"]
        ELSE LET assigned == [district_rank   |-> IntOf(rank).v,
                              district_name   |-> district_name,
                              state_name      |-> state,
                              risk_multiplier |-> MScale]
             IN  IF rank.t # "num"
                 THEN [info |-> assigned, exc |-> "TypeError"]
                 ELSE [info |-> [assigned EXCEPT
                                    !.risk_multiplier = RiskMultiplier(rank)],
                       exc  |-> "none"]

\* get_district_info: the dict it returns, and the exception its
\* "except Exception: pass" swallowed, if any
district_info_of(ev, dd, latitude, longitude) ==
    IF dd.none \/ dd.rows = << >>
    THEN [info |-> DefaultDistrictInfo, exc |-> "none"]
    ELSE IF ev.none \/ ev.rows = << >>
              \/ ~({"latitude", "longitude"} \subseteq ev.cols)
              \/ "district" \notin ev.cols
    THEN [info |-> DefaultDistrictInfo, exc |-> "none"]
    ELSE LET rows          == WithDist(ev, latitude, longitude).rows
             district_name == rows[Nearest(rows)].district
         IN  IF "district" \notin dd.cols
             THEN [info |-> DefaultDistrictInfo, exc |-> "KeyError"]
             ELSE IF district_name = NaN
             THEN [info |-> DefaultDistrictInfo, exc |-> "AttributeError"]
             ELSE IF DistrictMatch(dd, district_name) = << >>
             THEN [info |-> DefaultDistrictInfo, exc |-> "none"]
             ELSE AssignDistrictInfo(DistrictMatch(dd, district_name)[1],
                                     "rank" \in dd.cols, "state" \in dd.cols,
                                     district_name)

\* self.events_df after get_district_info
EventsAfterDistrictInfo(ev, dd, latitude, longitude) ==
    IF dd.none \/ dd.rows = << >> \/ ev.none \/ ev.rows = << >>
          \/ ~({"latitude", "longitude"} \subseteq ev.cols)
    THEN ev
    ELSE WithDist(ev, latitude, longitude)

get_district_info(latitude, longitude) ==
    /\ result' = [op   |-> "get_district_info",
                  at   |-> <<latitude, longitude>>,
                  info |-> district_info_of(events_df, district_df,
                                            latitude, longitude).info,
                  exc  |-> district_info_of(events_df, district_df,
                                            latitude, longitude).exc]
    /\ events_df' = EventsAfterDistrictInfo(events_df, district_df,
                                            latitude, longitude)
    /\ UNCHANGED <<district_df, model_file, registry_vars>>

\* The radii callers pass as radius_km (50 is the default), in km
Radii == {50, 150, 250}

\* get_historical_score: haversine_distance(lat1, lon1, lat2, lon2) with
\* R = 6371, to the nearest metre, for the coordinates of the query points
\* and of the events
haversine_distance(lat1, lon1, lat2, lon2) ==
    CASE
         lat1 = 10 /\ lon1 = 76 /\ lat2 = 10 /\ lon2 = 76 -> 0
      [] lat1 = 10 /\ lon1 = 76 /\ lat2 = 30 /\ lon2 = 79 -> 2245570
      [] lat1 = 10 /\ lon1 = 76 /\ lat2 = 27 /\ lon2 = 88 -> 2271154
      [] lat1 = 10 /\ lon1 = 76 /\ lat2 = 11 /\ lon2 = 75 -> 155941
      [] lat1 = 10 /\ lon1 = 76 /\ lat2 = 32 /\ lon2 = 77 -> 2448451
      [] lat1 = 10 /\ lon1 = 76 /\ lat2 = 25 /\ lon2 = 91 -> 2300486
      [] lat1 = 10 /\ lon1 = 76 /\ lat2 = 12 /\ lon2 = 75 -> 247730
      [] lat1 = 29 /\ lon1 = 80 /\ lat2 = 10 /\ lon2 = 76 -> 2153385
      [] lat1 = 29 /\ lon1 = 80 /\ lat2 = 30 /\ lon2 = 79 -> 147411
      [] lat1 = 29 /\ lon1 = 80 /\ lat2 = 27 /\ lon2 = 88 -> 816105
      [] lat1 = 29 /\ lon1 = 80 /\ lat2 = 11 /\ lon2 = 75 -> 2067805
      [] lat1 = 29 /\ lon1 = 80 /\ lat2 = 32 /\ lon2 = 77 -> 440283
      [] lat1 = 29 /\ lon1 = 80 /\ lat2 = 25 /\ lon2 = 91 -> 1176412
      [] lat1 = 29 /\ lon1 = 80 /\ lat2 = 12 /\ lon2 = 75 -> 1960007
      [] lat1 = 27 /\ lon1 = 88 /\ lat2 = 10 /\ lon2 = 76 -> 2271154
      [] lat1 = 27 /\ lon1 = 88 /\ lat2 = 30 /\ lon2 = 79 -> 940249
      [] lat1 = 27 /\ lon1 = 88 /\ lat2 = 27 /\ lon2 = 88 -> 0
      [] lat1 = 27 /\ lon1 = 88 /\ lat2 = 11 /\ lon2 = 75 -> 2239637
      [] lat1 = 27 /\ lon1 = 88 /\ lat2 = 32 /\ lon2 = 77 -> 1200067
      [] lat1 = 27 /\ lon1 = 88 /\ lat2 = 25 /\ lon2 = 91 -> 373272
      [] lat1 = 27 /\ lon1 = 88 /\ lat2 = 12 /\ lon2 = 75 -> 2150155
      [] lat1 = 12 /\ lon1 = 75 /\ lat2 = 10 /\ lon2 = 76 -> 247730
      [] lat1 = 12 /\ lon1 = 75 /\ lat2 = 30 /\ lon2 = 79 -> 2043624
      [] lat1 = 12 /\ lon1 = 75 /\ lat2 = 27 /\ lon2 = 88 -> 2150155
      [] lat1 = 12 /\ lon1 = 75 /\ lat2 = 11 /\ lon2 = 75 -> 111195
      [] lat1 = 12 /\ lon1 = 75 /\ lat2 = 32 /\ lon2 = 77 -> 2233292
      [] lat1 = 12 /\ lon1 = 75 /\ lat2 = 25 /\ lon2 = 91 -> 2217634
      [] lat1 = 12 /\ lon1 = 75 /\ lat2 = 12 /\ lon2 = 75 -> 0
      [] lat1 = 32 /\ lon1 = 77 /\ lat2 = 10 /\ lon2 = 76 -> 2448451
      [] lat1 = 32 /\ lon1 = 77 /\ lat2 = 30 /\ lon2 = 79 -> 292893
      [] lat1 = 32 /\ lon1 = 77 /\ lat2 = 27 /\ lon2 = 88 -> 1200067
      [] lat1 = 32 /\ lon1 = 77 /\ lat2 = 11 /\ lon2 = 75 -> 2344092
      [] lat1 = 32 /\ lon1 = 77 /\ lat2 = 32 /\ lon2 = 77 -> 0
      [] lat1 = 32 /\ lon1 = 77 /\ lat2 = 25 /\ lon2 = 91 -> 1571932
      [] lat1 = 32 /\ lon1 = 77 /\ lat2 = 12 /\ lon2 = 75 -> 2233292
      [] lat1 = 25 /\ lon1 = 90 /\ lat2 = 10 /\ lon2 = 76 -> 2229090
      [] lat1 = 25 /\ lon1 = 90 /\ lat2 = 30 /\ lon2 = 79 -> 1218228
      [] lat1 = 25 /\ lon1 = 90 /\ lat2 = 27 /\ lon2 = 88 -> 299003
      [] lat1 = 25 /\ lon1 = 90 /\ lat2 = 11 /\ lon2 = 75 -> 2218513
      [] lat1 = 25 /\ lon1 = 90 /\ lat2 = 32 /\ lon2 = 77 -> 1488051
      [] lat1 = 25 /\ lon1 = 90 /\ lat2 = 25 /\ lon2 = 91 -> 100777
      [] lat1 = 25 /\ lon1 = 90 /\ lat2 = 12 /\ lon2 = 75 -> 2139068

\* self.events_df['distance'] = self.events_df.apply(...)
WithDistance(ev, latitude, longitude) ==
    [none |-> FALSE,
     cols |-> ev.cols \cup {"distance"},
     rows |-> [i \in 1..Len(ev.rows) |->
                 [latitude  |-> ev.rows[i].latitude,
                  longitude |-> ev.rows[i].longitude,
                  district  |-> ev.rows[i].district,
                  dist      |-> ev.rows[i].dist,
                  distance  |-> haversine_distance(
                                    latitude, longitude,
                                    ev.rows[i].latitude, ev.rows[i].longitude)]]]

\* self.events_df[self.events_df['distance'] <= radius_km]
nearby_events(rows, radius_km) ==
    SelectSeq(rows, LAMBDA r : r.distance <= 1000 * radius_km)

RECURSIVE SumDistance(_)
SumDistance(rows) ==
    IF rows = << >> THEN 0 ELSE Head(rows).distance + SumDistance(Tail(rows))

\* A score is the exact fraction num / den
ZeroScore == [num |-> 0, den |-> 1]

\* The score with the count factor event_count / 10 left uncapped
combined_score_uncapped(event_count, sum_distance, radius_km) ==
    [num |-> 3 * event_count * event_count * 1000 * radius_km
               + 20 * (event_count * 1000 * radius_km - sum_distance),
     den |-> 50 * event_count * 1000 * radius_km]

\* count_score * 0.6 + proximity_score * 0.4 with
\* count_score = min(event_count / 10, 1.0) and
\* proximity_score = 1 - avg_distance / radius_km, where avg_distance is
\* sum_distance / event_count metres
combined_score(event_count, sum_distance, radius_km) ==
    [num |-> 3 * (IF event_count < 10 THEN event_count ELSE 10)
               * event_count * 1000 * radius_km
               + 20 * (event_count * 1000 * radius_km - sum_distance),
     den |-> 50 * event_count * 1000 * radius_km]

\* get_historical_score: the value it returns
historical_score_of(ev, latitude, longitude, radius_km) ==
    IF ev.none \/ ev.rows = << >> THEN ZeroScore
    ELSE IF {"latitude", "longitude"} \subseteq ev.cols
    THEN LET nearby == nearby_events(WithDistance(ev, latitude, longitude).rows,
                                     radius_km)
         IN  IF Len(nearby) = 0 THEN ZeroScore
             ELSE combined_score(Len(nearby), SumDistance(nearby), radius_km)
    ELSE ZeroScore

\* self.events_df after get_historical_score
EventsAfterHistoricalScore(ev, latitude, longitude) ==
    IF ev.none \/ ev.rows = << >>
          \/ ~({"latitude", "longitude"} \subseteq ev.cols)
    THEN ev
    ELSE WithDistance(ev, latitude, longitude)

get_historical_score(latitude, longitude, radius_km) ==
    /\ result' = [op     |-> "get_historical_score",
                  at     |-> <<latitude, longitude>>,
                  radius |-> radius_km,
                  score  |-> historical_score_of(events_df, latitude,
                                                 longitude, radius_km)]
    /\ events_df' = EventsAfterHistoricalScore(events_df, latitude, longitude)
    /\ UNCHANGED <<district_df, model_file, registry_vars>>

\* The adjustment without the clamp at 1.0
adjusted_probability_unclamped(probability, risk_multiplier) ==
    probability * risk_multiplier

\* predict, step 4: min(probability * district_info['risk_multiplier'], 1.0),
\* in units of 1 / (PScale * MScale)
adjusted_probability_of(probability, risk_multiplier) ==
    IF probability * risk_multiplier < PScale * MScale
    THEN probability * risk_multiplier
    ELSE PScale * MScale

\* predict: confidence = abs(adjusted_probability - 0.5) * 2
predictor_confidence(adjusted) ==
    IF 2 * adjusted >= PScale * MScale
    THEN 2 * adjusted - PScale * MScale
    ELSE PScale * MScale - 2 * adjusted

\* predict: "Determine risk level", on the adjusted probability
predictor_risk_level(adjusted) ==
    IF adjusted < 30 * MScale THEN "LOW"
    ELSE IF adjusted < 60 * MScale THEN "MODERATE"
    ELSE IF adjusted < 80 * MScale THEN "HIGH"
    ELSE "CRITICAL"

\* Fixed-point representation of feature value 1.0: a feature value is a
\* number of 15000ths, so that x/100, x/300, x/10 and x/5000 and their
\* halves are exact for whole x
FScale == 15000

\* A value of the caller's dict that is not a number
Text == [t |-> "txt", v |-> 0]

\* The pickle at MODEL_PATH.  model_key: the key of the dict that holds the
\* model ("other": some other key whose value has predict_proba, "none":
\* no such key); features: the 'features' entry of the dict
PickledDict(model_key, has_features, features) ==
    [readable |-> TRUE, dict |-> TRUE, model_key |-> model_key,
     has_features |-> has_features, features |-> features]

\* A pickle that holds the model itself
PickledModel ==
    [readable |-> TRUE, dict |-> FALSE, model_key |-> "none",
     has_features |-> FALSE, features |-> << >>]

\* A file that is missing or whose unpickling raises
Unreadable ==
    [readable |-> FALSE, dict |-> FALSE, model_key |-> "none",
     has_features |-> FALSE, features |-> << >>]

\* Feature lists of pipelines trained on the derived trigger features
DerivedFeatures ==
    <<"rainfall_trigger_prob", "trigger_rainfall", "earthquake_trigger_prob",
      "trigger_earthquake", "human_activity_trigger_prob",
      "trigger_anthropogenic", "slope", "lithology">>

\* model_retraining.py, version_and_save_model: the dict it pickles, with
\* 'features': list(model.feature_names_in_), the columns of
\* collect_real_time_data_from_db
RetrainedFeatures ==
    <<"rainfall_24h", "rainfall_72h", "slope", "elevation", "temperature",
      "humidity">>

\* _load_model: exit = 1 is sys.exit(1) from its "except Exception";
\* otherwise self.feature_names (none: None)
_load_model(file) ==
    IF ~file.readable
    THEN [exit |-> 1, none |-> TRUE, names |-> << >>]
    ELSE IF ~file.dict
    THEN [exit |-> 0, none |-> TRUE, names |-> << >>]
    ELSE IF file.model_key = "none"
    THEN [exit |-> 1, none |-> TRUE, names |-> << >>]
    ELSE IF file.has_features
    THEN [exit |-> 0, none |-> FALSE, names |-> file.features]
    ELSE [exit |-> 0, none |-> TRUE, names |-> << >>]

\* predict: the fallback feature_list
DefaultFeatureList ==
    <<"latitude", "longitude", "temperature", "humidity", "pressure",
      "wind_speed", "rainfall_24h", "rainfall_72h", "elevation", "slope",
      "earthquake_count", "max_earthquake_magnitude", "soil_moisture",
      "ndvi", "distance_to_fault", "population_density">>

\* features_dict.get(key, 0) of a numeric value
GetNum(features_dict, key) ==
    IF key \in DOMAIN features_dict THEN features_dict[key].v ELSE 0

IsText(features_dict, key) ==
    key \in DOMAIN features_dict /\ features_dict[key].t # "num"

Min(a, b) == IF a < b THEN a ELSE b

\* The raw inputs that predict divides and compares in its mapping
MappedInputs ==
    {"rainfall_24h", "rainfall_72h", "earthquake_count",
     "max_earthquake_magnitude", "population_density"}

MappedNames ==
    {"rainfall_trigger_prob", "trigger_rainfall", "earthquake_trigger_prob",
     "trigger_earthquake", "human_activity_trigger_prob",
     "trigger_anthropogenic", "monsoon_2014", "monsoon_2017", "field_based",
     "event_based"}

\* predict, step 2: mapped_features, in 15000ths.  is_monsoon: 1 when the
\* current month is June to September
mapped_features(features_dict, is_monsoon) ==
    [name \in MappedNames |->
        CASE name = "rainfall_trigger_prob" ->
                 Min(FScale, 25 * (3 * GetNum(features_dict, "rainfall_24h")
                                   + GetNum(features_dict, "rainfall_72h")))
          [] name = "trigger_rainfall" ->
                 IF GetNum(features_dict, "rainfall_24h") > 50 THEN FScale ELSE 0
          [] name = "earthquake_trigger_prob" ->
                 Min(FScale, 750 * (GetNum(features_dict, "earthquake_count")
                                    + GetNum(features_dict, "max_earthquake_magnitude")))
          [] name = "trigger_earthquake" ->
                 IF GetNum(features_dict, "earthquake_count") > 0 THEN FScale ELSE 0
          [] name = "human_activity_trigger_prob" ->
                 Min(FScale, 3 * GetNum(features_dict, "population_density"))
          [] name = "trigger_anthropogenic" ->
                 IF GetNum(features_dict, "population_density") > 1000
                 THEN FScale ELSE 0
          [] name = "monsoon_2014" -> is_monsoon * FScale
          [] name = "monsoon_2017" -> is_monsoon * FScale
          [] name = "field_based"  -> 0
          [] name = "event_based"  -> FScale]

\* predict, line 297: [mapped_features.get(fname, 0.0) for fname in
\* feature_list]
MappedVector(feature_list, mapped) ==
    [i \in 1..Len(feature_list) |->
        IF feature_list[i] \in DOMAIN mapped THEN mapped[feature_list[i]] ELSE 0]

\* The vector taken from mapped_features where it has the name
FeatureVector_mapped(feature_list, features_dict) ==
    [i \in 1..Len(feature_list) |->
        IF feature_list[i] \in MappedNames
        THEN mapped_features(features_dict, 0)[feature_list[i]]
        ELSE FScale * GetNum(features_dict, feature_list[i])]

\* predict, "Create feature vector from live API data": features = [] and
\* the loop that appends float(features_dict.get(feature_name, 0.0))
FeatureVector(feature_list, features_dict) ==
    [i \in 1..Len(feature_list) |->
        FScale * GetNum(features_dict, feature_list[i])]

\* predict, step 2.  The list of line 297 is assigned to features and then
\* replaced by the list of the loop, in both branches.  Dividing a text
\* value raises TypeError, float() of it ValueError
build_features(feature_names, features_dict) ==
    LET truthy       == ~feature_names.none /\ feature_names.names # << >>
        feature_list == IF truthy THEN feature_names.names
                        ELSE DefaultFeatureList
    IN  IF truthy /\ \E k \in MappedInputs : IsText(features_dict, k)
        THEN [raised |-> TRUE, exc |-> "TypeError",
              feature_list |-> feature_list, features |-> << >>]
        ELSE IF \E i \in 1..Len(feature_list) :
                    IsText(features_dict, feature_list[i])
        THEN [raised |-> TRUE, exc |-> "ValueError",
              feature_list |-> feature_list, features |-> << >>]
        ELSE [raised |-> FALSE, exc |-> "none",
              feature_list |-> feature_list,
              features |-> FeatureVector(feature_list, features_dict)]

\* predict, the dict returned from the try block.  features: the row of X
\* passed to self.model.predict_proba, which returned probability
PredictSuccess(d, probability, built) ==
    [success         |-> TRUE,
     raw_probability |-> probability,
     ml_probability  |-> adjusted_probability_of(probability, d.risk_multiplier),
     risk_level      |-> predictor_risk_level(
                             adjusted_probability_of(probability, d.risk_multiplier)),
     confidence      |-> predictor_confidence(
                             adjusted_probability_of(probability, d.risk_multiplier)),
     feature_list    |-> built.feature_list,
     features        |-> built.features,
     feature_count   |-> Len(built.features),
     district_info   |-> d]

\* predict, the dict returned from "except Exception"
PredictFailure ==
    [success         |-> FALSE,
     raw_probability |-> 0,
     ml_probability  |-> 50 * MScale,
     risk_level      |-> "UNKNOWN",
     confidence      |-> 0,
     feature_list    |-> << >>,
     features        |-> << >>,
     feature_count   |-> 0,
     district_info   |-> DefaultDistrictInfo]

\* predict: the dict it returns.  model_ok: self.model.predict_proba(X)
\* returns; otherwise it raises (X has not the shape the model was
\* trained on) and the exception is answered with the failure dict
predict_return(d, feature_names, features_dict, probability, model_ok) ==
    IF build_features(feature_names, features_dict).raised \/ ~model_ok
    THEN PredictFailure
    ELSE PredictSuccess(d, probability,
                        build_features(feature_names, features_dict))

\* predict, on a predictor that __init__ has constructed
predict(features_dict, latitude, longitude, probability, model_ok) ==
    /\ _load_model(model_file).exit = 0
    /\ result' = [op            |-> "predict",
                  at            |-> <<latitude, longitude>>,
                  features_dict |-> features_dict,
                  model_ok      |-> model_ok,
                  ret           |-> predict_return(
                                        district_info_of(events_df, district_df,
                                                         latitude, longitude).info,
                                        _load_model(model_file),
                                        features_dict, probability, model_ok)]
    /\ events_df' = EventsAfterDistrictInfo(events_df, district_df,
                                            latitude, longitude)
    /\ UNCHANGED <<district_df, model_file, registry_vars>>

\* Live API data with a key no model declares
LiveFeatures ==
    [k \in {"rainfall_24h", "rainfall_72h", "earthquake_count",
            "max_earthquake_magnitude", "population_density", "slope",
            "station_id"} |->
        CASE k = "rainfall_24h"             -> Num(100)
          [] k = "rainfall_72h"             -> Num(150)
          [] k = "earthquake_count"         -> Num(2)
          [] k = "max_earthquake_magnitude" -> Num(4)
          [] k = "population_density"       -> Num(2500)
          [] k = "slope"                    -> Num(30)
          [] k = "station_id"               -> Text]

\* The features dicts that callers pass to predict
FeatureDicts ==
    { EmptyDict,
      LiveFeatures,
      [k \in {"rainfall_24h", "slope"} |->
          IF k = "rainfall_24h" THEN Num(20) ELSE Num(12)],
      [k \in {"slope"} |-> Text] }

\* The pipeline pickles a predictor can be constructed from
LoadablePipelines ==
    { PickledModel,
      PickledDict("model", TRUE, DerivedFeatures),
      PickledDict("model", TRUE, RetrainedFeatures),
      PickledDict("pipeline", FALSE, << >>),
      PickledDict("estimator", TRUE, << >>),
      PickledDict("other", FALSE, << >>) }

\* LandslideMLPredictor.__init__: _load_model returned, and
\* _load_csv_reference_data leaves both tables None when a CSV file cannot
\* be read
PredictorInit ==
    /\ RegistryInit
    /\ files = EmptyDict
    /\ meta_files = EmptyDict
    /\ model_file \in {PickledModel, PickledDict("model", TRUE, DerivedFeatures)}
    /\ \/ events_df = NoTable /\ district_df = NoTable
       \/ /\ events_df \in InitEventTables
          /\ district_df \in InitDistrictTables
    /\ result = NoResult

PredictorNext ==
    \/ \E q \in QueryPoints : get_district_info(q[1], q[2])
    \/ \E q \in QueryPoints, r \in Radii : get_historical_score(q[1], q[2], r)
    \/ \E q \in QueryPoints, pr \in PipelineProbs, model_ok \in BOOLEAN :
            predict(LiveFeatures, q[1], q[2], pr, model_ok)
    \/ \E fd \in FeatureDicts : predict(fd, 10, 76, 50, TRUE)

PredictorSpec == PredictorInit /\ [][PredictorNext]_vars

----------------------------------------------------------------------------
(* main: server/ml/predict.py run as a script *)

\* What the backend writes to the script's standard input.  json: the text
\* parses; object: it parses to a dict; features_kind: the 'features'
\* entry is absent, null or a dict
StdIn(json, object, has_latitude, has_longitude, features_kind, features) ==
    [json |-> json, object |-> object,
     has_latitude |-> has_latitude, has_longitude |-> has_longitude,
     at |-> <<10, 76>>,
     features_kind |-> features_kind, features |-> features]

RawInputs ==
    { StdIn(FALSE, FALSE, FALSE, FALSE, "absent", EmptyDict),
      StdIn(TRUE, FALSE, FALSE, FALSE, "absent", EmptyDict),
      StdIn(TRUE, TRUE, FALSE, TRUE, "dict", LiveFeatures),
      StdIn(TRUE, TRUE, TRUE, FALSE, "absent", EmptyDict),
      StdIn(TRUE, TRUE, TRUE, TRUE, "absent", EmptyDict),
      StdIn(TRUE, TRUE, TRUE, TRUE, "null", EmptyDict),
      StdIn(TRUE, TRUE, TRUE, TRUE, "dict", LiveFeatures),
      StdIn(TRUE, TRUE, TRUE, TRUE, "dict", [k \in {"slope"} |-> Text]) }

\* main, "except Exception": error_result
error_result ==
    [success          |-> FALSE,
     ml_result        |-> [success        |-> FALSE,
                           ml_probability |-> 50 * MScale,
                           risk_level     |-> "UNKNOWN",
                           confidence     |-> 0],
     historical_score |-> ZeroScore]

\* main: features['latitude'] = latitude; features['longitude'] = longitude
WithCoordinates(features, at) ==
    Put(Put(features, "latitude", Num(at[1])), "longitude", Num(at[2]))

\* main from "Run ML prediction" on: ml_result is what predict returned
MainAfterPredict(ml_result, historical_score, at) ==
    IF ~ml_result.success
    THEN [stdout |-> <<error_result>>, exit |-> 0, ml_result |-> ml_result]
    ELSE [stdout |-> <<[success          |-> TRUE,
                        ml_result        |-> ml_result,
                        historical_score |-> historical_score,
                        latitude         |-> at[1],
                        longitude        |-> at[2]]>>,
          exit |-> 0, ml_result |-> ml_result]

\* main ended before predict was called
MainWithoutPredict(stdout, exit) ==
    [stdout |-> stdout, exit |-> exit, ml_result |-> PredictFailure]

\* One run of the script: what it writes to standard output, in order, and
\* its exit status.  The predictor is constructed after the input is
\* parsed and before the coordinates are checked; sys.exit(1) of
\* _load_model raises SystemExit, which "except Exception" does not catch
main_run(file, ev, dd, raw_input, probability, model_ok) ==
    IF ~raw_input.json \/ ~raw_input.object
    THEN MainWithoutPredict(<<error_result>>, 0)
    ELSE IF _load_model(file).exit # 0
    THEN MainWithoutPredict(<< >>, _load_model(file).exit)
    ELSE IF ~raw_input.has_latitude \/ ~raw_input.has_longitude
    THEN MainWithoutPredict(<<error_result>>, 0)
    ELSE IF raw_input.features_kind = "null"
    THEN MainWithoutPredict(<<error_result>>, 0)
    ELSE MainAfterPredict(
             predict_return(
                 district_info_of(ev, dd, raw_input.at[1], raw_input.at[2]).info,
                 _load_model(file),
                 WithCoordinates(raw_input.features, raw_input.at),
                 probability, model_ok),
             historical_score_of(ev, raw_input.at[1], raw_input.at[2], 50),
             raw_input.at)

\* main.  The process ends with the run: the files it read are as before
main(raw_input, probability, model_ok) ==
    /\ result' = [op       |-> "main",
                  input    |-> raw_input,
                  model_ok |-> model_ok,
                  run      |-> main_run(model_file, events_df, district_df,
                                        raw_input, probability, model_ok)]
    /\ UNCHANGED <<events_df, district_df, model_file, registry_vars>>

\* The files a run of the script finds: the pipeline pickle, which may be
\* unreadable or hold a dict without a model, and the CSV files as
\* _load_csv_reference_data reads them
ScriptInit ==
    /\ RegistryInit
    /\ files = EmptyDict
    /\ meta_files = EmptyDict
    /\ model_file \in LoadablePipelines
                        \cup {Unreadable, PickledDict("none", TRUE, RetrainedFeatures)}
    /\ \/ events_df = NoTable /\ district_df = NoTable
       \/ /\ events_df \in {DataFrame(EventCols, EventRows),
                            DataFrame(EventCols, ClusterRows),
                            DataFrame(EventCols, << >>)}
          /\ district_df \in InitDistrictTables
    /\ result = NoResult

ScriptNext ==
    \E raw_input \in RawInputs, pr \in PipelineProbs, model_ok \in BOOLEAN :
        main(raw_input, pr, model_ok)

ScriptSpec == ScriptInit /\ [][ScriptNext]_vars

----------------------------------------------------------------------------
(* Properties of the standalone predictor *)

PredictSucceeded == result.op = "predict" /\ result.ret.success

\* Risk multipliers from 1.0 to 2.5, in 720ths
Multipliers == MScale..((5 * MScale) \div 2)

\* C9: the adjusted probability is min(raw_probability * risk_multiplier,
\* 1.0): with a multiplier >= 1 it lies in [0,1], is never below the raw
\* probability and never decreases when the multiplier grows; 0.5 with 1.5
\* gives 0.75 and 0.6 with 1.8 clamps to 1.0.
C9_AdjustedProbability ==
    PredictSucceeded =>
        LET p == result.ret.raw_probability
            m == result.ret.district_info.risk_multiplier
            a == result.ret.ml_probability
        IN  /\ m >= MScale
            /\ 0 <= a /\ a <= PScale * MScale
            /\ a >= p * MScale
            /\ a <= p * m
            /\ (a < p * m => a = PScale * MScale)
            /\ \A m2 \in Multipliers :
                  /\ (m2 >= m => adjusted_probability_of(p, m2) >= a)
                  /\ (m2 <= m => adjusted_probability_of(p, m2) <= a)
            /\ (p = 50 /\ m = 1080 => a = 54000)
            /\ (p = 60 /\ m = 1296 => a = 72000)

\* C9 witness: raw probability 0.6 in a district with multiplier 1.8,
\* clamped to 1.0.
C9_Witness ==
    /\ PredictSucceeded
    /\ result.ret.raw_probability = 60
    /\ result.ret.district_info.risk_multiplier = 1296
    /\ result.ret.ml_probability = PScale * MScale

\* The district of the event nearest to the query of the last call is in
\* no row of the rank table
NearestDistrictUnranked ==
    LET name == events_df.rows[Nearest(events_df.rows)].district
    IN  \A i \in 1..Len(district_df.rows) :
            Lower(district_df.rows[i].district) # Lower(name)

\* A step of the lookup of the last call failed
LookupFailed ==
    \/ district_df.none \/ district_df.rows = << >>
    \/ events_df.none \/ events_df.rows = << >>
    \/ ~({"latitude", "longitude"} \subseteq events_df.cols)
    \/ "district" \notin events_df.cols
    \/ result.exc # "none"
    \/ NearestDistrictUnranked

\* C10: whenever a step of the lookup fails (a table missing or empty, no
\* coordinates or no district column in the events table, the nearest
\* event's district not in the rank table, an exception), get_district_info
\* returns exactly the neutral defaults, never a partially filled record.
C10_NeutralDefaultsOnFailure ==
    (result.op = "get_district_info" /\ LookupFailed) =>
        result.info = [district_rank   |-> 0,
                       district_name   |-> "Unknown",
                       state_name      |-> "Unknown",
                       risk_multiplier |-> 720]

\* The row of the rank table that the lookup of the last call matched: the
\* first row whose district is the nearest event's district, ignoring case
MatchedRow ==
    DistrictMatch(district_df,
                  events_df.rows[Nearest(events_df.rows)].district)[1]

\* The lookup of the last call found the nearest event's district in the
\* rank table, with a number r >= 0 in its rank cell
FoundWithRank ==
    /\ result.op = "get_district_info"
    /\ ~district_df.none /\ district_df.rows # << >>
    /\ ~events_df.none /\ events_df.rows # << >>
    /\ {"latitude", "longitude", "district"} \subseteq events_df.cols
    /\ {"district", "rank"} \subseteq district_df.cols
    /\ events_df.rows[Nearest(events_df.rows)].district # NaN
    /\ ~NearestDistrictUnranked
    /\ MatchedRow.rank.t = "num"
    /\ MatchedRow.rank.v >= 0

\* Ranks from 0 to 100, in tenths
Ranks == 0..1000

\* C11: for a district found in the rank table with rank r >= 0,
\* get_district_info returns risk_multiplier = max(1.0, 2.0 - r/72), which
\* lies in [1.0, 2.0], does not increase when r grows and is 1.0 for every
\* r >= 72.
C11_MultiplierOfRank ==
    FoundWithRank =>
        LET r == MatchedRow.rank.v
            m == result.info.risk_multiplier
        IN  /\ result.exc = "none"
            /\ m = (IF 2 * MScale - r > MScale THEN 2 * MScale - r ELSE MScale)
            /\ m >= MScale
            /\ m <= 2 * MScale
            /\ (r >= 720 => m = MScale)
            /\ \A r2 \in Ranks :
                  /\ (r2 >= r => RiskMultiplier(Num(r2)) <= m)
                  /\ (r2 <= r => RiskMultiplier(Num(r2)) >= m)

\* C11 witness: a district of rank 100, beyond 72, with multiplier 1.0.
C11_Witness ==
    /\ FoundWithRank
    /\ MatchedRow.rank.v = 1000
    /\ result.info.district_name = "Wayanad"
    /\ result.info.risk_multiplier = MScale

\* C11 witness below 72: a district of rank 1 with multiplier 2.0 - 1/72.
C11_WitnessRanked ==
    /\ FoundWithRank
    /\ MatchedRow.rank.v = 10
    /\ result.info.risk_multiplier = 2 * MScale - 10

ScoreReturned == result.op = "get_historical_score"

\* The events within the radius of the last get_historical_score call
EventsWithin ==
    IF events_df.none \/ ~({"latitude", "longitude"} \subseteq events_df.cols)
    THEN << >>
    ELSE SelectSeq(events_df.rows,
                   LAMBDA r : haversine_distance(result.at[1], result.at[2],
                                                 r.latitude, r.longitude)
                                  <= 1000 * result.radius)

\* Sums of n distances between 0 and the radius, in steps of a tenth of it
DistanceSums(n, radius_km) == {n * k * 100 * radius_km : k \in 0..10}

\* C12: get_historical_score returns exactly 0.0 when no event lies within
\* the radius (or the events table is missing or empty); otherwise it
\* returns 0.6*min(n/10, 1) + 0.4*(1 - avg_distance/radius) over the n
\* events within the radius, a value in [0,1] that does not increase when
\* the events' distance grows with n fixed.
C12_HistoricalScore ==
    ScoreReturned =>
        LET n   == Len(EventsWithin)
            sum == SumSeq([i \in 1..n |->
                      haversine_distance(result.at[1], result.at[2],
                                         EventsWithin[i].latitude,
                                         EventsWithin[i].longitude)])
            R   == 1000 * result.radius
            sc  == result.score
        IN  IF n = 0
            THEN sc = [num |-> 0, den |-> 1]
            ELSE \* sc = 6/10 * min(n, 10)/10 + 4/10 * (1 - sum/(n * R)),
                 \* as a fraction of denominator 50 * n * R
                 /\ sc.den = 50 * n * R
                 /\ 2 * sc.num = 6 * (IF n < 10 THEN n ELSE 10) * n * R
                                   + 40 * (n * R - sum)
                 /\ 0 <= sc.num /\ sc.num <= sc.den
                 /\ \A s2 \in DistanceSums(n, result.radius) :
                       LET other == combined_score(n, s2, result.radius)
                       IN  /\ other.den = sc.den
                           /\ (s2 >= sum => other.num <= sc.num)
                           /\ (s2 <= sum => other.num >= sc.num)

\* C12 witness: eleven events within 250 km of (10, 76), so that the count
\* factor is capped at 1.
C12_Witness ==
    /\ ScoreReturned
    /\ Len(EventsWithin) = 11
    /\ result.score.num > 0
    /\ result.score.num < result.score.den

\* C12 witness of the zero branch: a table with events, none within 50 km.
C12_WitnessNone ==
    /\ ScoreReturned
    /\ ~events_df.none /\ events_df.rows # << >>
    /\ "distance" \in events_df.cols
    /\ Len(EventsWithin) = 0
    /\ result.score.num = 0

----------------------------------------------------------------------------
(* Properties of predict_batch and get_risk_zones *)

BatchAnswered == last.op = "predict_batch"

BatchSucceeded == BatchAnswered /\ last.resp.status = 200

GridAnswered == last.op = "get_risk_zones"

GridSucceeded == GridAnswered /\ last.resp.status = 200

\* C13: for every successful batch of 1 to 100 locations, total_locations
\* equals the number of requested locations and the number of returned
\* predictions, and the per-tier summary counts sum to total_locations.
C13_BatchTotals ==
    BatchSucceeded =>
        LET summary == last.resp.summary
        IN  /\ Len(last.locations) \in 1..100
            /\ last.resp.total_locations = Len(last.locations)
            /\ last.resp.total_locations = Len(last.resp.predictions)
            /\ summary.very_low + summary.low + summary.moderate
                   + summary.high + summary.severe = last.resp.total_locations

\* C13 witness: a successful batch of 100 locations with predictions in
\* all five tiers.
C13_Witness ==
    /\ BatchSucceeded
    /\ Len(last.locations) = 100
    /\ last.resp.summary.very_low > 0
    /\ last.resp.summary.low > 0
    /\ last.resp.summary.moderate > 0
    /\ last.resp.summary.high > 0
    /\ last.resp.summary.severe > 0

\* An answer with a client-error status
ClientError(resp) == resp.status \in 400..499

\* C14: a batch request with 0 or more than 100 locations, and a risk-zone
\* request with grid_size > 50, is rejected as a client error before any
\* inference call is made, and never answered with a partial result.
C14_SizeValidationFirst ==
    /\ (BatchAnswered /\ (Len(last.locations) = 0 \/ Len(last.locations) > 100)) =>
            /\ ClientError(last.resp)
            /\ last.served = 0
            /\ "predictions" \notin DOMAIN last.resp
    /\ (GridAnswered /\ last.grid_size > 50) =>
            /\ ClientError(last.resp)
            /\ last.served = 0
            /\ "grid" \notin DOMAIN last.resp

\* C14 witness: a batch of 101 locations rejected while the ensemble slot
\* holds a model.
C14_Witness ==
    /\ BatchAnswered
    /\ Len(last.locations) = 101
    /\ "ensemble" \in DOMAIN models
    /\ ClientError(last.resp)

\* C14 witness for the grid: a 51 x 51 request rejected while the ensemble
\* slot holds a model.
C14_WitnessGrid ==
    /\ GridAnswered
    /\ last.grid_size = 51
    /\ "ensemble" \in DOMAIN models
    /\ ClientError(last.resp)

\* The locations of the last batch whose single prediction fails
FailingItems ==
    {i \in 1..Len(last.locations) :
        predict_single_response(models, last.locations[i]).status # 200}

\* C15: on success the i-th returned prediction is the single-prediction
\* result of the i-th requested location for every i; if any item fails the
\* whole batch fails at the first such item with no predictions returned.
C15_BatchIsRepeatedSingle ==
    (BatchAnswered /\ Len(last.locations) \in 1..100) =>
        IF FailingItems = {}
        THEN /\ last.resp.status = 200
             /\ Len(last.resp.predictions) = Len(last.locations)
             /\ \A i \in 1..Len(last.locations) :
                    last.resp.predictions[i] =
                        predict_single_response(models, last.locations[i])
        ELSE /\ last.resp.status # 200
             /\ "predictions" \notin DOMAIN last.resp
             /\ last.at \in FailingItems
             /\ \A i \in FailingItems : last.at <= i
             /\ last.served = last.at

\* C15 witness: a successful batch of three locations whose predictions
\* differ from one another.
C15_Witness ==
    /\ BatchSucceeded
    /\ Len(last.locations) = 3
    /\ last.resp.predictions[1].probability # last.resp.predictions[2].probability
    /\ last.resp.predictions[2].probability # last.resp.predictions[3].probability
    /\ last.resp.predictions[1].probability # last.resp.predictions[3].probability

\* C15 witness of the failing case: the third of three items fails after
\* two have been predicted.
C15_WitnessFailure ==
    /\ BatchAnswered
    /\ Len(last.locations) = 3
    /\ last.resp.status = 500
    /\ last.at = 3

\* C16: for every grid_size g with 2 <= g <= 50, a successful risk-zone
\* request returns g rows of g cells, every probability in [0,1], the
\* coordinates evenly spaced, the corner cells at the corners of the
\* requested bounds, and the bounds echoed unchanged.
C16_GridShape ==
    (GridSucceeded /\ last.grid_size \in 2..50) =>
        LET g    == last.grid_size
            grid == last.resp.grid
            b    == last.bounds
        IN  /\ last.resp.grid_size = g
            /\ Len(grid) = g
            /\ \A i \in 1..g :
                  /\ Len(grid[i]) = g
                  /\ \A j \in 1..g :
                        /\ grid[i][j].probability >= 0
                        /\ grid[i][j].probability <= PScale
                        /\ grid[i][j].latitude.den = g - 1
                        /\ grid[i][j].longitude.den = g - 1
                        \* latitude = min + (i-1) * (max - min) / (g-1)
                        /\ grid[i][j].latitude.num =
                              b[1] * (g - 1) + (i - 1) * (b[2] - b[1])
                        /\ grid[i][j].longitude.num =
                              b[3] * (g - 1) + (j - 1) * (b[4] - b[3])
            /\ grid[1][1].latitude.num = b[1] * (g - 1)
            /\ grid[1][1].longitude.num = b[3] * (g - 1)
            /\ grid[1][g].latitude.num = b[1] * (g - 1)
            /\ grid[1][g].longitude.num = b[4] * (g - 1)
            /\ grid[g][1].latitude.num = b[2] * (g - 1)
            /\ grid[g][1].longitude.num = b[3] * (g - 1)
            /\ grid[g][g].latitude.num = b[2] * (g - 1)
            /\ grid[g][g].longitude.num = b[4] * (g - 1)
            /\ last.resp.bounds = [min_latitude  |-> b[1],
                                   max_latitude  |-> b[2],
                                   min_longitude |-> b[3],
                                   max_longitude |-> b[4]]

\* C16 witness: a successful 50 x 50 grid computed by the ensemble model.
C16_Witness ==
    /\ GridSucceeded
    /\ last.grid_size = 50
    /\ "ensemble" \in DOMAIN models
    /\ Len(last.resp.grid) = 50

\* C17: when the ensemble slot is absent, a risk-zone request with a valid
\* grid_size (<= 50) and any bounds succeeds and every cell of the grid has
\* probability exactly 0.5.
C17_AbsentEnsembleGridIsNeutral ==
    (GridAnswered /\ last.grid_size <= 50 /\ "ensemble" \notin DOMAIN models) =>
        /\ last.resp.status = 200
        /\ \A i \in 1..last.grid_size : \A j \in 1..last.grid_size :
              last.resp.grid[i][j].probability = 50

\* The same for the bounds whose latitude + longitude is nowhere negative
C17_NeutralWhereSeedIsValid ==
    (GridAnswered /\ last.bounds[1] + last.bounds[3] >= 0
         /\ last.bounds[1] + last.bounds[4] >= 0
         /\ last.bounds[2] + last.bounds[3] >= 0
         /\ last.bounds[2] + last.bounds[4] >= 0)
        => C17_AbsentEnsembleGridIsNeutral

----------------------------------------------------------------------------
(* Properties of unload_model, save_model / reload_model and load_models *)

\* C18: after unload_model(name) get_model(name) is absent; on an absent
\* name the call leaves the registry unchanged and does not raise; a
\* second unload changes nothing more; the other slots are never affected.
C18_UnloadIdempotent ==
    [][\A n \in OpNames :
          unload_model(n) =>
              /\ n \notin DOMAIN models'
              /\ ~last'.raised
              /\ DOMAIN models' = (DOMAIN models) \ {n}
              /\ \A k \in DOMAIN models' : models'[k] = models[k]
              /\ (n \notin DOMAIN models =>
                     UNCHANGED <<models, model_metadata, loaded, files, meta_files>>)
              \* unloading once more yields the same registry
              /\ (IF n \in DOMAIN models' THEN Del(models', n) ELSE models') = models'
       ]_vars

\* C18 witness: unload_model has removed one slot and left another.
C18_Witness ==
    /\ last.op = "unload_model"
    /\ last.name = "ensemble"
    /\ "ensemble" \notin DOMAIN models
    /\ "xgboost" \in DOMAIN models
    /\ "ensemble" \in DOMAIN model_metadata

\* C19: after save_model(name, artifact, metadata) get_model(name) returns
\* that artifact, and a later reload_model(name) with no save in between
\* leaves get_model(name) returning the saved artifact.
C19_SaveReloadRoundTrip ==
    /\ (last.op = "save_model" =>
            /\ ~last.raised
            /\ get_model(last.name) = saved[last.name]
            /\ DictGet(files, ModelPath(last.name), "None") = saved[last.name])
    /\ ((last.op = "reload_model" /\ last.name \in DOMAIN saved) =>
            /\ ~last.raised
            /\ get_model(last.name) = saved[last.name])

\* C19 witness: "ensemble" was saved as B over a store that held A, then
\* unloaded or cleaned up, and reload_model has brought B back.
C19_Witness ==
    /\ last.op = "reload_model"
    /\ last.name = "ensemble"
    /\ "ensemble" \in DOMAIN saved
    /\ saved["ensemble"] = "B"
    /\ get_model("ensemble") = "B"
    /\ phase = "cleaned"

\* C20: load_models on an empty registry, with a non-empty subset of the
\* eight slots loadable from the store, does not raise, registers exactly
\* the loadable slots, fabricates no stand-in model, and leaves a registry
\* with members but no ensemble not ready.
C20_LoadRegistersLoadable ==
    [][(load_models /\ models = EmptyDict /\ \E s \in Slots : FileLoads(s)) =>
          /\ ~last'.raised
          /\ DOMAIN models' = {s \in Slots : FileLoads(s)}
          /\ \A s \in DOMAIN models' : models'[s] = files[ModelFile(s)]
          /\ \A s \in DOMAIN models' : models'[s] \notin DummyArtifacts \cup {Scaler}
          /\ ("ensemble" \notin DOMAIN models' => ~(loaded' /\ "ensemble" \in DOMAIN models'))
       ]_vars

\* The same for stores none of whose metadata files is corrupt
C20_LoadWithReadableMetadata ==
    [][(load_models /\ models = EmptyDict /\ (\E s \in Slots : FileLoads(s))
            /\ \A s \in DOMAIN meta_files : meta_files[s] # Corrupt) =>
          /\ ~last'.raised
          /\ DOMAIN models' = {s \in Slots : FileLoads(s)}
          /\ \A s \in DOMAIN models' : models'[s] = files[ModelFile(s)]
          /\ ("ensemble" \notin DOMAIN models' => ~(loaded' /\ "ensemble" \in DOMAIN models'))
       ]_vars

----------------------------------------------------------------------------
(* Properties of the feature vector, the tiers and the reference tables of
   the standalone predictor *)

PredictCalled == result.op = "predict"

\* The feature names the pipeline pickle declares: the 'features' entry of
\* the pickled dict, or the sixteen default names when there is none
DeclaredFeatures ==
    IF model_file.dict /\ model_file.has_features /\ model_file.features # << >>
    THEN model_file.features
    ELSE <<"latitude", "longitude", "temperature", "humidity", "pressure",
           "wind_speed", "rainfall_24h", "rainfall_72h", "elevation", "slope",
           "earthquake_count", "max_earthquake_magnitude", "soil_moisture",
           "ndvi", "distance_to_fault", "population_density">>

\* Every value the caller gave under a key that predict reads is a number
ValuesAreNumbers ==
    \A k \in DOMAIN result.features_dict :
        \/ result.features_dict[k].t = "num"
        \/ (k \notin Range(DeclaredFeatures) /\ k \notin MappedInputs)

\* C21: the vector passed to the model has one entry per declared feature
\* name, in the declared order (the sixteen default names when the model
\* declares none); a declared name the caller gave no value for contributes
\* 0.0, and unknown or missing caller keys never make the prediction fail.
C21_FeatureVector ==
    PredictCalled =>
        /\ (ValuesAreNumbers /\ result.model_ok => result.ret.success)
        /\ (result.ret.success =>
              /\ result.ret.feature_list = DeclaredFeatures
              /\ Len(result.ret.features) = Len(DeclaredFeatures)
              /\ result.ret.feature_count = Len(DeclaredFeatures)
              /\ \A i \in 1..Len(DeclaredFeatures) :
                    LET name == DeclaredFeatures[i]
                    IN  IF name \in DOMAIN result.features_dict
                        THEN result.ret.features[i]
                                = FScale * result.features_dict[name].v
                        ELSE result.ret.features[i] = 0)

\* C21 witness: a pipeline that declares eight names, called with a dict
\* that has one of them and one key it does not declare.
C21_Witness ==
    /\ PredictCalled
    /\ result.ret.success
    /\ model_file.has_features
    /\ DOMAIN result.features_dict = {"rainfall_24h", "slope"}
    /\ result.ret.features = <<0, 0, 0, 0, 0, 0, 12 * FScale, 0>>

\* C21 witness on the default list: an unknown key with a text value, and
\* nine of the sixteen names missing.
C21_WitnessDefaultList ==
    /\ PredictCalled
    /\ result.ret.success
    /\ ~model_file.dict
    /\ "station_id" \in DOMAIN result.features_dict
    /\ result.ret.feature_count = 16

\* The names of the derived features
DerivedNames ==
    {"rainfall_trigger_prob", "trigger_rainfall", "earthquake_trigger_prob",
     "trigger_earthquake", "human_activity_trigger_prob",
     "trigger_anthropogenic"}

\* C22: when the model declares derived features, the vector passed to the
\* model carries at their positions the values computed from the raw
\* inputs: rainfall_trigger_prob = min(1, (rainfall_24h/100 +
\* rainfall_72h/300)/2), earthquake_trigger_prob = min(1,
\* (earthquake_count/10 + max_earthquake_magnitude/10)/2),
\* human_activity_trigger_prob = min(1, population_density/5000), and the
\* flags are 1 iff rainfall_24h > 50, earthquake_count > 0,
\* population_density > 1000.
C22_DerivedFeatures ==
    (PredictCalled /\ result.ret.success) =>
        \A i \in 1..Len(result.ret.feature_list) :
            LET name == result.ret.feature_list[i]
                fd   == result.features_dict
                r24  == GetNum(fd, "rainfall_24h")
                r72  == GetNum(fd, "rainfall_72h")
                eqc  == GetNum(fd, "earthquake_count")
                eqm  == GetNum(fd, "max_earthquake_magnitude")
                pop  == GetNum(fd, "population_density")
                x    == result.ret.features[i]
            IN  /\ (name = "rainfall_trigger_prob" =>
                        600 * x = Min(600, 3 * r24 + r72) * FScale)
                /\ (name = "earthquake_trigger_prob" =>
                        20 * x = Min(20, eqc + eqm) * FScale)
                /\ (name = "human_activity_trigger_prob" =>
                        5000 * x = Min(5000, pop) * FScale)
                /\ (name = "trigger_rainfall" =>
                        x = IF r24 > 50 THEN FScale ELSE 0)
                /\ (name = "trigger_earthquake" =>
                        x = IF eqc > 0 THEN FScale ELSE 0)
                /\ (name = "trigger_anthropogenic" =>
                        x = IF pop > 1000 THEN FScale ELSE 0)

\* What the code does at the positions of the derived features: the value
\* is the caller's entry of that name, 0.0 when the caller has none,
\* whatever the raw inputs are
C22_DerivedPositionsAreCallerKeys ==
    (PredictCalled /\ result.ret.success) =>
        \A i \in 1..Len(result.ret.feature_list) :
            (/\ result.ret.feature_list[i] \in DerivedNames
             /\ result.ret.feature_list[i] \notin DOMAIN result.features_dict)
                => result.ret.features[i] = 0

----------------------------------------------------------------------------
(* Properties of readers that run during reload_model *)

\* A reload of a loaded slot whose artifact is in the store is between its
\* unload and its load
Reloading(name) ==
    /\ pc.name = name
    /\ pc.old # "None"
    /\ ModelPath(name) \in DOMAIN files
    /\ files[ModelPath(name)] # Corrupt

\* C23: a get_model(name) that interleaves with a reload_model(name), for a
\* loaded name whose artifact is in the store, returns the old or the new
\* artifact and never sees the slot absent; a prediction that runs during a
\* reload of the ensemble slot never fails as unavailable.
C23_ReadersSeeOldOrNew ==
    /\ \A n \in OpNames :
          (last.op = "get_model" /\ last.name = n /\ Reloading(n)) =>
              last.resp.model \in {pc.old, files[ModelPath(n)]}
    /\ (last.op = "predict_single" /\ Reloading("ensemble")) =>
          ~(last.resp.status # 200
              /\ last.resp.cause = "Ensemble model not available")

\* With no reload between its two steps, a slot that load_models or a
\* completed reload filled is what get_model returns
C23_ReadersWhenIdle ==
    (last.op = "get_model" /\ pc = Idle) =>
        last.resp.model = DictGet(models, last.name, "None")

----------------------------------------------------------------------------
(* Properties of the reference tables *)

\* The step is a call of one of the two lookups
LookupStep ==
    result'.op \in {"get_historical_score", "get_district_info"}

\* The rows of a table restricted to the columns of landslide_events.csv
CsvRows(ev) ==
    [i \in 1..Len(ev.rows) |->
        [latitude  |-> ev.rows[i].latitude,
         longitude |-> ev.rows[i].longitude,
         district  |-> ev.rows[i].district]]

\* C24: get_historical_score and get_district_info are read-only: they
\* leave the historical-events table and the district-rank table unchanged
\* (same rows, same columns, same values), for every query point and in any
\* order of calls.
C24_LookupsAreReadOnly ==
    [][LookupStep => (events_df' = events_df /\ district_df' = district_df)]_vars

\* What the lookups do leave unchanged: the district-rank table, and the
\* rows of the events table in the columns read from the CSV file; the
\* columns they add are 'dist' and 'distance'
C24_LookupsKeepCsvColumns ==
    [][LookupStep =>
          /\ district_df' = district_df
          /\ events_df'.none = events_df.none
          /\ CsvRows(events_df') = CsvRows(events_df)
          /\ events_df.cols \subseteq events_df'.cols
          /\ events_df'.cols \ events_df.cols \subseteq {"dist", "distance"}]_vars

----------------------------------------------------------------------------
(* Properties of feature_importance *)

\* The xgboost slot holds a model that exposes importances
XgboostHasImportances ==
    "xgboost" \in DOMAIN models /\ HasImportances(models["xgboost"])

\* C25: the feature_importance of a single prediction is the empty mapping
\* when the xgboost slot is absent or exposes no importances; otherwise its
\* keys are distinct declared feature names, each paired with the xgboost
\* importance at the same index, in descending order of value.  It never
\* influences probability, risk_level or confidence, which are those of the
\* ensemble and of the members.
C25_FeatureImportance ==
    Succeeded =>
        LET fi == last.resp.feature_importance
        IN  /\ (~XgboostHasImportances => fi = << >>)
            /\ (XgboostHasImportances =>
                  LET imp == feature_importances_(models["xgboost"])
                  IN  /\ Len(fi) = Min(Len(FEATURE_COLUMNS), Len(imp))
                      /\ \A k \in 1..Len(fi) :
                            \E i \in 1..Len(imp) :
                                /\ i <= Len(FEATURE_COLUMNS)
                                /\ fi[k] = <<FEATURE_COLUMNS[i], imp[i]>>
                      /\ \A k, l \in 1..Len(fi) :
                            /\ (k # l => fi[k][1] # fi[l][1])
                            /\ (k < l => fi[k][2] >= fi[l][2]))
            /\ last.resp.probability = predict_proba(models["ensemble"], last.x)
            /\ last.resp.risk_level = risk_level_of(last.resp.probability)
            /\ last.resp.confidence = confidence_of(model_predictions(models, last.x))

\* C25 witness: an xgboost model trained on five features, whose
\* importances are not in descending order and have a tie.
C25_Witness ==
    /\ Succeeded
    /\ XgboostHasImportances
    /\ last.resp.feature_importance
          = << <<"slope_angle", 30>>, <<"rainfall_intensity", 25>>,
               <<"soil_moisture", 18>>, <<"elevation", 18>>, <<"ndvi", 15>> >>

\* C25 witness: a prediction served with the xgboost slot absent.
C25_WitnessNoXgboost ==
    /\ Succeeded
    /\ "xgboost" \notin DOMAIN models
    /\ last.resp.feature_importance = << >>

----------------------------------------------------------------------------
(* Properties of the tiers of the two entry points *)

\* RiskLevel members by name
TierName(level) ==
    CASE level = "Very Low" -> "VERY_LOW"
      [] level = "Low"      -> "LOW"
      [] level = "Moderate" -> "MODERATE"
      [] level = "High"     -> "HIGH"
      [] level = "Severe"   -> "SEVERE"

\* The tier that predict_single gives a probability of adjusted /
\* (PScale * MScale): its thresholds, in the units of the adjusted
\* probability
ServiceTier(adjusted) ==
    IF adjusted >= SEVERE_RISK_THRESHOLD * MScale THEN "Severe"
    ELSE IF adjusted >= HIGH_RISK_THRESHOLD * MScale THEN "High"
    ELSE IF adjusted >= MODERATE_RISK_THRESHOLD * MScale THEN "Moderate"
    ELSE IF adjusted >= LOW_RISK_THRESHOLD * MScale THEN "Low"
    ELSE "Very Low"

\* C26: LandslideMLPredictor.predict classifies the adjusted probability
\* with the five-tier mapping of the thresholds 0.3/0.5/0.7/0.9 (VERY_LOW,
\* LOW, MODERATE, HIGH, SEVERE), so that both entry points give the same
\* tier to the same probability.
C26_SameTiers ==
    PredictSucceeded =>
        /\ ServiceTier(result.ret.raw_probability * MScale)
              = risk_level_of(result.ret.raw_probability)
        /\ result.ret.risk_level = TierName(ServiceTier(result.ret.ml_probability))

\* The tiers predict does report: LOW below 0.3, MODERATE below 0.6, HIGH
\* below 0.8, CRITICAL from 0.8
C26_PredictorTiers ==
    PredictSucceeded =>
        LET a == result.ret.ml_probability
        IN  result.ret.risk_level
              = (IF 10 * a < 3 * PScale * MScale THEN "LOW"
                 ELSE IF 10 * a < 6 * PScale * MScale THEN "MODERATE"
                 ELSE IF 10 * a < 8 * PScale * MScale THEN "HIGH"
                 ELSE "CRITICAL")

----------------------------------------------------------------------------
(* Properties of the registry's metadata, of the stand-in models and of a
   reload without an artifact *)

\* C27: a name has metadata in the registry only if a model is loaded under
\* it; after unload_model(name) get_metadata(name) is empty, and after
\* reload_model(name) the metadata is that of the reloaded artifact.
C27_MetadataOnlyOfLoaded ==
    /\ DOMAIN model_metadata \subseteq DOMAIN models
    /\ (last.op = "unload_model" => get_metadata(last.name) = "empty")
    /\ ((last.op = "reload_model" /\ last.name \in DOMAIN models
            /\ last.name \in DOMAIN meta_files
            /\ meta_files[last.name] # Corrupt) =>
            get_metadata(last.name) = meta_files[last.name])

\* What does hold of the metadata: a name has metadata in the registry
\* only if its metadata file is in the store
C27_MetadataHasFile ==
    DOMAIN model_metadata \subseteq DOMAIN meta_files

\* load_models has kept every model the registry held or the store gave
KeptByLoad ==
    /\ \A n \in Slots :
          FileLoads(n) => (n \in DOMAIN models' /\ models'[n] = files[ModelFile(n)])
    /\ \A n \in DOMAIN models :
          ~(n \in Slots /\ FileLoads(n)) =>
              (n \in DOMAIN models' /\ models'[n] = models[n])

\* load_models has added no slot but those it read from the store
NoStandIns ==
    DOMAIN models' = (DOMAIN models) \cup {n \in Slots : FileLoads(n)}

\* C28: load_models fabricates stand-in models only when the registry holds
\* no model at the end of its loading pass: it never overwrites a model
\* registered from the store (also one whose metadata file was corrupt) or
\* one already in memory from an earlier load_models or save_model.
C28_StandInsOnlyIntoEmptyRegistry ==
    [][load_models =>
          /\ KeptByLoad
          /\ ((DOMAIN models # {} \/ \E n \in Slots : FileLoads(n)) => NoStandIns)
       ]_vars

\* What does hold: a pass that counted at least one slot fabricates nothing
C28_NoStandInsWhenCounted ==
    [][(load_models /\ loaded_count > 0) => (KeptByLoad /\ NoStandIns)]_vars

\* C29: a reload_model(name) that cannot find the artifact in the store
\* leaves the registry unchanged: get_model(name) still returns the
\* artifact loaded before, and readiness is as before the call.
C29_FailedReloadKeepsRegistry ==
    [][\A n \in OpNames :
          (reload_model(n) /\ ModelPath(n) \notin DOMAIN files) =>
              /\ models' = models
              /\ model_metadata' = model_metadata
              /\ is_ready' = is_ready
       ]_vars

\* What does hold: such a reload removes the named slot and nothing else
C29_FailedReloadUnloads ==
    [][\A n \in OpNames :
          (reload_model(n) /\ ModelPath(n) \notin DOMAIN files) =>
              /\ n \notin DOMAIN models'
              /\ DOMAIN models' = (DOMAIN models) \ {n}
              /\ \A k \in DOMAIN models' : models'[k] = models[k]
              /\ model_metadata' = model_metadata
              /\ loaded' = loaded
       ]_vars

----------------------------------------------------------------------------
(* Properties of the script's main *)

MainRan == result.op = "main"

\* The input is a JSON object with latitude and longitude
ValidInput ==
    /\ result.input.json
    /\ result.input.object
    /\ result.input.has_latitude
    /\ result.input.has_longitude

\* The model loads from the pipeline pickle
ModelLoads ==
    /\ model_file.readable
    /\ (model_file.dict => model_file.model_key # "none")

\* predict was called and returned success
PredictReturnedSuccess ==
    /\ ValidInput
    /\ ModelLoads
    /\ result.input.features_kind # "null"
    /\ result.run.ml_result.success

\* The result is the failure with the neutral payload
NeutralFailure(out) ==
    /\ out.success = FALSE
    /\ out.ml_result.ml_probability = 50 * MScale
    /\ out.ml_result.risk_level = "UNKNOWN"
    /\ out.ml_result.confidence = 0
    /\ out.historical_score = [num |-> 0, den |-> 1]

\* C30: main writes exactly one JSON result to standard output for every
\* input; on any failure (invalid JSON, non-object input, missing latitude
\* or longitude, model or reference data that cannot be loaded, exception
\* during prediction) the result has success = false with the neutral
\* payload, and success = true is written only when predict succeeded.
C30_OneResultPerRun ==
    MainRan =>
        /\ Len(result.run.stdout) = 1
        /\ ((~ValidInput \/ ~ModelLoads \/ events_df.none \/ district_df.none
                \/ ~PredictReturnedSuccess) =>
              NeutralFailure(result.run.stdout[1]))
        /\ (result.run.stdout[1].success => PredictReturnedSuccess)

\* What main does: when the input is not a JSON object, or the model
\* loads, it writes one result, the neutral failure unless predict
\* succeeded and the success result when it did; reference tables that
\* could not be read are no failure.  When the input is a JSON object and
\* the model does not load it writes nothing and exits with status 1.
C30_OneResultWhenModelLoads ==
    MainRan =>
        IF result.input.json /\ result.input.object /\ ~ModelLoads
        THEN result.run.stdout = << >> /\ result.run.exit = 1
        ELSE /\ Len(result.run.stdout) = 1
             /\ result.run.exit = 0
             /\ (~PredictReturnedSuccess => NeutralFailure(result.run.stdout[1]))
             /\ (PredictReturnedSuccess =>
                   /\ result.run.stdout[1].success
                   /\ result.run.stdout[1].ml_result = result.run.ml_result)

====
